---- MODULE Spec2Model ----
(***************************************************************************)
(* Model of the nats_sidecar subscription / matching / dispatch pipeline:  *)
(* subscription_manager (RCU snapshot publication), lease_manager (KV      *)
(* watch callback), sidecar_engine::on_data_message and the worker_pool    *)
(* (worker loop and the publish coroutine it spawns on the I/O thread).    *)
(*                                                                         *)
(* Strings whose characters matter (client ids, lease keys, subjects) are  *)
(* sequences of one-character strings.  Expressions are opaque texts.      *)
(***************************************************************************)
EXTENDS Integers, Sequences, FiniteSets, TLC

VARIABLES
    m_next_id,          \* subscription_manager::m_next_id
    m_expr_to_id,       \* subscription_manager::m_expr_to_id
    m_subscriptions,    \* subscription_manager::m_subscriptions
    m_snapshot,         \* subscription_manager::m_snapshot (address of a heap object)
    heap,               \* the tree_snapshot objects alive on the heap, by address
    last,               \* outcome of the last handler / API call that ran
    m_messages_received,\* sidecar_engine::m_messages_received
    m_queue,            \* worker_pool::m_queue
    workers,            \* per worker thread: position in worker_loop and its locals
    tasks,              \* publish coroutines spawned on the I/O context
    m_processed,        \* worker_pool::m_processed
    m_matched,          \* worker_pool::m_matched
    m_published,        \* worker_pool::m_published
    m_match_failures,   \* worker_pool::m_match_failures
    wire,               \* what conn->publish was asked to send, per inbound message
    inbound,            \* the data messages delivered so far, in order of arrival
    removed_ids,        \* ids whose subscription has been deleted so far
    main_pc,            \* main(): which call of its shutdown sequence it is in
    ioc_stopped,        \* the io_context's stopped flag (set by stop, cleared by restart)
    signals_waiting,    \* the signal_set's async_wait is still pending
    start_pc,           \* sidecar_engine::start: the step it is suspended at
    registered,         \* bus subscriptions and the KV watch start has established
    m_running,          \* worker_pool::m_running
    exit_code           \* <<>> while the process runs, <<c>> once main returned c

mgr_vars  == <<m_next_id, m_expr_to_id, m_subscriptions, m_snapshot>>
pipe_vars == <<m_messages_received, m_queue, workers, tasks, m_processed,
               m_matched, m_published, m_match_failures, wire>>
life_vars == <<main_pc, ioc_stopped, signals_waiting, start_pc, registered,
               m_running, exit_code>>
vars      == <<m_next_id, m_expr_to_id, m_subscriptions, m_snapshot, heap, last,
               m_messages_received, m_queue, workers, tasks, m_processed,
               m_matched, m_published, m_match_failures, wire, inbound, removed_ids,
               main_pc, ioc_stopped, signals_waiting, start_pc, registered,
               m_running, exit_code>>

----------------------------------------------------------------------------
(* Bounds of the model *)

\* subscribe of a new expression is explored while m_next_id <= MaxId
MaxId == 2
\* data messages are delivered while m_messages_received < MaxMsgs
MaxMsgs == 1

\* worker threads of the pool (worker_pool::m_thread_count)
Workers == {"w1", "w2"}

\* client ids used by requests
Clients == {<<"c">>, <<"d">>}

\* expression texts: the engine accepts the first two and rejects the third
Exprs == {"e1", "e2", "bad"}

----------------------------------------------------------------------------
(* Strings *)

Digits == <<"0", "1", "2", "3", "4", "5", "6", "7", "8", "9">>

IsDigit(ch) == \E i \in 1..10 : Digits[i] = ch

DigitValue(ch) == (CHOOSE i \in 1..10 : Digits[i] = ch) - 1

\* std::to_string(uint64_t): decimal text without sign or leading zeros
RECURSIVE to_string(_)
to_string(n) ==
    IF n < 10 THEN <<Digits[n + 1]>>
    ELSE to_string(n \div 10) \o <<Digits[(n % 10) + 1]>>

\* std::string::find(ch): index (from 0) of the first occurrence, or -1 (npos)
RECURSIVE FindFrom(_, _, _)
FindFrom(s, ch, i) ==
    IF i > Len(s) THEN -1
    ELSE IF s[i] = ch THEN i - 1
    ELSE FindFrom(s, ch, i + 1)

\* a slip: the last occurrence is taken (rfind)
RECURSIVE FindLastFrom(_, _, _)
FindLastFrom(s, ch, i) ==
    IF i < 1 THEN -1
    ELSE IF s[i] = ch THEN i - 1
    ELSE FindLastFrom(s, ch, i - 1)

rfind(s, ch) == FindLastFrom(s, ch, Len(s))

find(s, ch) == FindFrom(s, ch, 1)

\* std::string::substr(pos, n) and substr(pos), pos counted from 0
substr(s, pos, n) == SubSeq(s, pos + 1, pos + n)

substr_from(s, pos) == SubSeq(s, pos + 1, Len(s))

----------------------------------------------------------------------------
(* lease_manager: lease keys *)

\* digits of UINT64_MAX, 18446744073709551615
U64MaxDigits == <<"1","8","4","4","6","7","4","4","0","7","3","7","0","9","5","5","1","6","1","5">>

\* length of the longest prefix of s made of decimal digits
RECURSIVE DigitPrefixLen(_)
DigitPrefixLen(s) ==
    IF s = <<>> \/ ~IsDigit(Head(s)) THEN 0 ELSE 1 + DigitPrefixLen(Tail(s))

RECURSIVE StripZeros(_)
StripZeros(s) ==
    IF Len(s) > 1 /\ Head(s) = "0" THEN StripZeros(Tail(s)) ELSE s

\* lexicographic a > b for digit strings of equal length
RECURSIVE DigitsGreater(_, _)
DigitsGreater(a, b) ==
    IF a = <<>> THEN FALSE
    ELSE IF DigitValue(Head(a)) # DigitValue(Head(b))
         THEN DigitValue(Head(a)) > DigitValue(Head(b))
         ELSE DigitsGreater(Tail(a), Tail(b))

ExceedsU64(ds) ==
    LET t == StripZeros(ds)
    IN  \/ Len(t) > Len(U64MaxDigits)
        \/ Len(t) = Len(U64MaxDigits) /\ DigitsGreater(t, U64MaxDigits)

RECURSIVE DecimalValue(_, _)
DecimalValue(ds, acc) ==
    IF ds = <<>> THEN acc
    ELSE DecimalValue(Tail(ds), acc * 10 + DigitValue(Head(ds)))

\* std::from_chars(first, last, uint64_t&): consumes the longest digit prefix.
\* ec is "ok", "invalid_argument" (no digit at the start) or
\* "result_out_of_range"; ptr is the number of characters consumed.
from_chars(s) ==
    LET n  == DigitPrefixLen(s)
        ds == SubSeq(s, 1, n)
    IN  IF n = 0 THEN [ec |-> "invalid_argument", value |-> 0, ptr |-> 0]
        ELSE IF ExceedsU64(ds) THEN [ec |-> "result_out_of_range", value |-> 0, ptr |-> n]
        ELSE [ec |-> "ok", value |-> DecimalValue(ds, 0), ptr |-> n]

make_lease_key(subscription_id, client_id) ==
    to_string(subscription_id) \o <<".">> \o client_id

\* the text handed to from_chars: key.substr(0, dot)
LeaseKeyIdText(key, dot) == substr(key, 0, dot)

\* a slip: the separator is kept in the client id
LeaseKeyClientTextWithDot(key, dot) == substr_from(key, dot)

\* client_id = key.substr(dot + 1)
LeaseKeyClientText(key, dot) == substr_from(key, dot + 1)

\* [ok, subscription_id, client_id]; the out-parameters matter only when ok
parse_lease_key(key) ==
    LET dot == find(key, ".")
    IN  IF dot = -1 \/ dot = 0 \/ dot = Len(key) - 1
        THEN [ok |-> FALSE, subscription_id |-> 0, client_id |-> <<>>]
        ELSE LET r == from_chars(LeaseKeyIdText(key, dot))
             IN  IF r.ec # "ok"
                 THEN [ok |-> FALSE, subscription_id |-> 0, client_id |-> <<>>]
                 ELSE [ok |-> TRUE, subscription_id |-> r.value,
                       client_id |-> LeaseKeyClientText(key, dot)]

----------------------------------------------------------------------------
(* tree_snapshot objects and the heap *)

\* config::output_prefix as the tests construct the manager ("o" for short)
m_output_prefix == <<"o">>

\* addresses: enough for the slot, the object under construction and one
\* reference per worker and per publish coroutine
Addrs == 1..(Cardinality(Workers) + MaxMsgs + 2)

NullPtr == 0

FreeCell == [live |-> FALSE, tree |-> <<>>, output_subjects |-> <<>>, active_count |-> 0]

erase(f, k) == [x \in DOMAIN f \ {k} |-> f[x]]

\* atree::Tree::insert accepts the expression text or throws atree::Error
ValidExpression(e) == e # "bad"

\* a slip: the separator is left out
OutputSubjectNoDot(id) == m_output_prefix \o to_string(id)

\* snap->output_subjects[id] = m_output_prefix + "." + std::to_string(id)
OutputSubject(id) == m_output_prefix \o <<".">> \o to_string(id)

\* publish_snapshot throws (before anything is stored) iff some insert throws
PublishThrows(subs) == \E id \in DOMAIN subs : ~ValidExpression(subs[id].expression)

\* a slip: the loop over the subscriptions stops one short
SubjectIdsOneShort(subs) == { id \in DOMAIN subs : \E other \in DOMAIN subs : other > id }

\* a slip: the first subscription gets no output subject
SubjectIdsButFirst(subs) == DOMAIN subs \ {1}

\* the ids publish_snapshot puts into snap->output_subjects
SubjectIds(subs) == DOMAIN subs

\* the object publish_snapshot builds from the writer's m_subscriptions
BuildSnapshot(subs) ==
    [live            |-> TRUE,
     tree            |-> [id \in DOMAIN subs |-> subs[id].expression],
     output_subjects |-> [id \in SubjectIds(subs) |-> OutputSubject(id)],
     active_count    |-> Cardinality(DOMAIN subs)]

\* every address some shared_ptr points to
Refs(slot, wk, tk) ==
    ({slot} \cup {wk[w].snap : w \in DOMAIN wk} \cup {tk[t].snap_copy : t \in DOMAIN tk})
        \ {NullPtr}

\* objects whose last reference is gone are destroyed
Release(h, refs) == [a \in Addrs |-> IF a \in refs THEN h[a] ELSE FreeCell]

\* a slip: the published object is rebuilt in place
InPlaceSnapshotAddr == m_snapshot

\* std::make_shared<tree_snapshot>(): a fresh object, distinct from all live ones
NewSnapshotAddr == CHOOSE a \in Addrs : ~heap[a].live /\ \A b \in Addrs : ~heap[b].live => a <= b

\* publish_snapshot on success: build, then atomically store into m_snapshot
PublishSnapshot(subs) ==
    LET a == NewSnapshotAddr
    IN  /\ m_snapshot' = a
        /\ heap' = Release([heap EXCEPT ![a] = BuildSnapshot(subs)],
                           Refs(a, workers, tasks))

\* subscription_manager::snapshot(): atomic load of the slot
snapshot == m_snapshot

\* subscription_manager::active_count()
active_count == heap[m_snapshot].active_count

get_subscription(id) ==
    IF id \in DOMAIN m_subscriptions THEN <<m_subscriptions[id]>> ELSE <<>>

find_by_expression(e) ==
    IF e \in DOMAIN m_expr_to_id THEN <<m_expr_to_id[e]>> ELSE <<>>

----------------------------------------------------------------------------
(* Outcome of a call: what it returned, whether it threw, what it logged and
   which subscription_manager calls it made *)

NoOutcome ==
    [op |-> "none", expression |-> "", key |-> <<>>, kvop |-> "", ret_id |-> 0,
     ret_removed |-> FALSE, threw |-> FALSE, log |-> "", calls |-> <<>>]

\* the expression is kept for a call that threw (it is what the error reply names)
SubscribeOutcome(expression, id, threw, log) ==
    [NoOutcome EXCEPT !.op = "subscribe", !.expression = expression,
                      !.ret_id = id, !.threw = threw, !.log = log]

RemoveOutcome(op, removed, log) ==
    [NoOutcome EXCEPT !.op = op, !.ret_removed = removed, !.log = log]

----------------------------------------------------------------------------
(* subscription_manager: writers (all run on the I/O thread, under m_write_mutex) *)

\* a slip: the holder set is overwritten instead of extended
ReuseHoldersOverwrite(holders, client_id) == {client_id}

\* sub.lease_holders.insert(client_id) on the duplicate-expression path
ReuseHolders(holders, client_id) == holders \cup {client_id}

\* a slip: the lease-only change rebuilds and publishes the tree as well
SubscribeExistingRepublish(expression, client_id) ==
    LET id    == m_expr_to_id[expression]
        subs1 == [m_subscriptions EXCEPT ![id].lease_holders = ReuseHolders(@, client_id)]
    IN  /\ m_subscriptions' = subs1
        /\ PublishSnapshot(subs1)
        /\ UNCHANGED <<m_next_id, m_expr_to_id>>

\* the duplicate-expression path: lease-only change, no snapshot publish
SubscribeExisting(expression, client_id) ==
    LET id == m_expr_to_id[expression]
    IN  /\ m_subscriptions' =
              [m_subscriptions EXCEPT ![id].lease_holders = ReuseHolders(@, client_id)]
        /\ UNCHANGED <<m_next_id, m_expr_to_id, m_snapshot, heap>>

\* a slip: the counter is read but not advanced
TakeIdNoIncrement(next_id) == [id |-> next_id, next_id |-> next_id]

\* uint64_t id = m_next_id++
TakeId(next_id) == [id |-> next_id, next_id |-> next_id + 1]

\* the catch block: m_subscriptions.erase(id)
RollbackSubscriptions(subs, id) == erase(subs, id)

\* a slip: the expression stays indexed after the failed insert
RollbackExprToIdMissing(exprs, expression) == exprs

\* the catch block: m_expr_to_id.erase(expression)
RollbackExprToId(exprs, expression) == erase(exprs, expression)

\* a slip: the counter is taken back twice
RollbackNextIdTwice(next_id) == next_id - 2

\* a slip: the counter is not restored
RollbackNextIdMissing(next_id) == next_id

\* a slip: the counter is reset instead of taken back
RollbackNextIdToOne(next_id) == 1

\* the catch block: m_next_id--
RollbackNextId(next_id) == next_id - 1

\* the new-expression path: take an id, insert tentatively, rebuild and
\* publish; on a throw from the rebuild, roll back and rethrow
SubscribeNew(expression, client_id) ==
    LET t     == TakeId(m_next_id)
        info  == [id |-> t.id, expression |-> expression, lease_holders |-> {client_id}]
        subs1 == (t.id :> info) @@ m_subscriptions
        expr1 == (expression :> t.id) @@ m_expr_to_id
    IN  IF PublishThrows(subs1)
        THEN /\ m_subscriptions' = RollbackSubscriptions(subs1, t.id)
             /\ m_expr_to_id' = RollbackExprToId(expr1, expression)
             /\ m_next_id' = RollbackNextId(t.next_id)
             /\ UNCHANGED <<m_snapshot, heap>>
        ELSE /\ m_subscriptions' = subs1
             /\ m_expr_to_id' = expr1
             /\ m_next_id' = t.next_id
             /\ PublishSnapshot(subs1)

\* subscription_manager::subscribe: what it does to the manager
subscribe(expression, client_id) ==
    /\ IF expression \in DOMAIN m_expr_to_id
       THEN SubscribeExisting(expression, client_id)
       ELSE m_next_id <= MaxId /\ SubscribeNew(expression, client_id)
    /\ UNCHANGED removed_ids

\* subscription_manager::subscribe: what the caller gets (the id returned
\* or the exception) and the line logged
SubscribeReturn(expression, client_id) ==
    IF expression \in DOMAIN m_expr_to_id
    THEN SubscribeOutcome("", m_expr_to_id[expression], FALSE, "Reused subscription")
    ELSE IF PublishThrows((m_next_id :> [id |-> m_next_id, expression |-> expression,
                                         lease_holders |-> {client_id}])
                          @@ m_subscriptions)
         THEN SubscribeOutcome(expression, 0, TRUE, "")
         ELSE SubscribeOutcome("", TakeId(m_next_id).id, FALSE, "New subscription")

\* a slip: every holder is dropped, not only client_id
EraseHolderAll(holders, client_id) == {}

\* it->second.lease_holders.erase(client_id)
EraseHolder(holders, client_id) == holders \ {client_id}

\* a slip: the maps are updated but no snapshot is published
RepublishMissing(subs) == UNCHANGED <<m_snapshot, heap>>

\* the publish_snapshot() call that ends a removal
RepublishAfterRemove(subs) == PublishSnapshot(subs)

\* delete the subscription and its expression entry, then republish
DeleteSubscription(id) ==
    LET subs1 == erase(m_subscriptions, id)
    IN  /\ m_expr_to_id' = erase(m_expr_to_id, m_subscriptions[id].expression)
        /\ m_subscriptions' = subs1
        /\ RepublishAfterRemove(subs1)
        /\ removed_ids' = removed_ids \cup {id}

\* what remains of the subscription's holders once client_id is erased
RemainingHolders(subscription_id, client_id) ==
    EraseHolder(m_subscriptions[subscription_id].lease_holders, client_id)

\* a slip: the emptiness test is dropped, the subscription is never deleted
NoHolderLeftNever(holders) == FALSE

\* if (it->second.lease_holders.empty())
NoHolderLeft(holders) == holders = {}

\* the return value of remove_lease
RemoveLeaseReturns(subscription_id, client_id) ==
    /\ subscription_id \in DOMAIN m_subscriptions
    /\ NoHolderLeft(RemainingHolders(subscription_id, client_id))

RemoveLeaseLog(subscription_id, client_id) ==
    IF subscription_id \notin DOMAIN m_subscriptions THEN ""
    ELSE IF NoHolderLeft(RemainingHolders(subscription_id, client_id))
         THEN "Removed subscription"
    ELSE "Removed lease"

\* a slip: the tree is rebuilt although the subscription stays
KeepSubscriptionRepublish(subscription_id, client_id) ==
    LET subs1 == [m_subscriptions EXCEPT ![subscription_id].lease_holders =
                                             RemainingHolders(subscription_id, client_id)]
    IN  /\ m_subscriptions' = subs1
        /\ PublishSnapshot(subs1)
        /\ UNCHANGED <<m_expr_to_id, removed_ids>>

\* other holders remain: only the holder set changes, return false
KeepSubscription(subscription_id, client_id) ==
    /\ m_subscriptions' =
           [m_subscriptions EXCEPT ![subscription_id].lease_holders =
                                       RemainingHolders(subscription_id, client_id)]
    /\ UNCHANGED <<m_expr_to_id, m_snapshot, heap, removed_ids>>

\* subscription_manager::remove_lease: what it does to the manager
remove_lease(subscription_id, client_id) ==
  /\ UNCHANGED m_next_id
  /\ IF subscription_id \notin DOMAIN m_subscriptions
    THEN UNCHANGED <<m_expr_to_id, m_subscriptions, m_snapshot, heap, removed_ids>>
    ELSE IF NoHolderLeft(RemainingHolders(subscription_id, client_id))
         THEN DeleteSubscription(subscription_id)
         ELSE KeepSubscription(subscription_id, client_id)

\* a slip: a subscription that still has holders is left alone
RemoveSubscriptionIfUnheld(subscription_id) ==
    /\ UNCHANGED m_next_id
    /\ IF subscription_id \in DOMAIN m_subscriptions
          /\ m_subscriptions[subscription_id].lease_holders = {}
       THEN DeleteSubscription(subscription_id)
       ELSE UNCHANGED <<m_expr_to_id, m_subscriptions, m_snapshot, heap, removed_ids>>

\* subscription_manager::remove_subscription: what it does to the manager
remove_subscription(subscription_id) ==
    /\ UNCHANGED m_next_id
    /\ IF subscription_id \notin DOMAIN m_subscriptions
       THEN UNCHANGED <<m_expr_to_id, m_subscriptions, m_snapshot, heap, removed_ids>>
       ELSE DeleteSubscription(subscription_id)

RemoveSubscriptionReturns(subscription_id) == subscription_id \in DOMAIN m_subscriptions

----------------------------------------------------------------------------
(* lease_manager::on_kv_entry *)

KvOps == {"put", "del", "purge"}

\* keys the bucket may report: the lease keys of every id and client, and
\* keys that do not have the shape <id>.<client_id>
KvKeys ==
    {make_lease_key(id, c) : id \in 0..(MaxId + 1), c \in Clients}
    \cup { <<>>, <<"c">>, <<".", "c">>, <<"1", ".">>, <<"x", ".", "c">>,
           <<"1", "x", ".", "c">>, <<"1", ".", "c", ".", "d">>, <<"0", "1", ".", "c">> }

KvOutcome(kvop, key, log, calls, removed) ==
    [NoOutcome EXCEPT !.op = "kv_entry", !.kvop = kvop, !.key = key, !.log = log,
                      !.calls = calls, !.ret_removed = removed]

\* a call the handler made on the subscription manager
RemoveLeaseCall(subscription_id, client_id) ==
    [fn |-> "remove_lease", subscription_id |-> subscription_id, client_id |-> client_id]

OnKvEntry(kvop, key) ==
    /\ IF kvop = "put"
       THEN /\ last' = KvOutcome(kvop, key, "KV put", <<>>, FALSE)
            /\ UNCHANGED <<mgr_vars, heap, removed_ids>>
       ELSE LET p == parse_lease_key(key)
            IN  IF ~p.ok
                THEN /\ last' = KvOutcome(kvop, key, "failed to parse lease key", <<>>, FALSE)
                     /\ UNCHANGED <<mgr_vars, heap, removed_ids>>
                ELSE /\ remove_lease(p.subscription_id, p.client_id)
                     /\ last' = KvOutcome(kvop, key, "lease expired",
                                          <<RemoveLeaseCall(p.subscription_id, p.client_id)>>,
                                          RemoveLeaseReturns(p.subscription_id, p.client_id))
    /\ UNCHANGED <<pipe_vars, inbound, life_vars>>

----------------------------------------------------------------------------
(* The process: main's I/O loop and what sidecar_engine::start has set up *)

\* the process has neither returned from main nor been killed by a fault
ProcessAlive == main_pc \notin {"returned", "crashed"}

\* main is inside ioc.run() and the io_context has not been stopped:
\* handlers and coroutines posted to m_ioc run
IoRunning == main_pc \in {"run", "run_again"} /\ ~ioc_stopped

\* m_worker_pool is non-null: start ran to its end
PoolCreated == start_pc = "done"

\* stats_loop has been spawned; it waits on its timer for ever
StatsLoopSpawned == start_pc = "done"

\* operations pending on the io_context, which keep ioc.run() from returning
\* for lack of work
OutstandingWork ==
    \/ signals_waiting
    \/ start_pc \in {"input", "subscribe", "unsubscribe", "lease"}
    \/ registered # {}
    \/ StatsLoopSpawned
    \/ tasks # <<>>

----------------------------------------------------------------------------
(* Inbound payloads and the event bridge *)

\* payload bytes the data subject may carry: empty, not decodable as a map,
\* a record satisfying both "e1" and "e2"
Payloads == { <<>>, <<"x">>, <<"a">> }

\* further payloads: one that decodes to something that is not a map, and a
\* map whose event makes tree.search throw
MatchPayloads == Payloads \cup { <<"n">>, <<"t">> }

\* the deserializer accepts the bytes: nothing throws before the search
Decodes(payload) == payload # <<"x">>

\* reader.isMap()
IsMap(payload) == payload # <<"n">>

\* tree.search(std::move(event)) throws
SearchThrows(payload) == payload = <<"t">>

\* the expression engine: the event decoded from payload satisfies expression
Satisfies(expression, payload) ==
    /\ expression \in {"e1", "e2"}
    /\ payload = <<"a">>

\* all orders in which tree.search may list the ids of a set
RECURSIVE Orders(_)
Orders(S) ==
    IF S = {} THEN { <<>> }
    ELSE UNION { { <<x>> \o o : o \in Orders(S \ {x}) } : x \in S }

\* ids whose expression in the tree the payload's event satisfies
SearchHits(tree, payload) == { id \in DOMAIN tree : Satisfies(tree[id], payload) }

\* a slip: a failed search is reported as a match list with no ids
SearchFailedAsEmpty == << <<>> >>

\* the catch around tree.search: return std::nullopt
SearchFailed == <<>>

\* match_message: the possible results, <<>> for nullopt and <<ids>> for a
\* match list
match_message(tree, payload) ==
    IF ~IsMap(payload) THEN { <<>> }
    ELSE IF SearchThrows(payload) THEN { SearchFailed }
    ELSE { <<o>> : o \in Orders(SearchHits(tree, payload)) }

\* deserialize_and_match: an exception on the way is caught and the
\* function returns std::nullopt
deserialize_and_match(tree, payload) ==
    IF ~Decodes(payload) THEN { <<>> }
    ELSE match_message(tree, payload)

----------------------------------------------------------------------------
(* sidecar_engine::on_data_message (I/O thread) *)

\* a slip: the copy is constructed empty
CopyPayloadEmpty(payload) == <<>>

\* std::vector<char> payload_copy(payload.begin(), payload.end())
CopyPayload(payload) == [i \in 1..Len(payload) |-> payload[i]]

\* a slip: the empty-payload test is missing
DropsPayloadNever(payload) == FALSE

\* if (payload.empty()) co_return
DropsPayload(payload) == payload = <<>>

\* m_worker_pool->enqueue(...) through a null m_worker_pool is undefined:
\* the process is killed by the fault, or goes on with the payload lost
NullPoolOutcomes == {"crash", "lost"}

OnDataMessage(payload) ==
    /\ IoRunning
    /\ "input" \in registered
    /\ m_messages_received < MaxMsgs
    /\ m_messages_received' = m_messages_received + 1
    /\ inbound' = Append(inbound, [payload |-> payload, gone |-> removed_ids,
                                   queued |-> ~DropsPayload(payload) /\ PoolCreated])
    /\ IF DropsPayload(payload)
       THEN UNCHANGED <<m_queue, main_pc>>
       ELSE IF PoolCreated
            THEN /\ m_queue' = Append(m_queue, [seq |-> Len(inbound) + 1,
                                                payload |-> CopyPayload(payload)])
                 /\ UNCHANGED main_pc
            ELSE /\ \E outcome \in NullPoolOutcomes :
                        main_pc' = IF outcome = "crash" THEN "crashed" ELSE main_pc
                 /\ UNCHANGED m_queue
    /\ UNCHANGED <<mgr_vars, heap, last, workers, tasks, m_processed, m_matched,
                   m_published, m_match_failures, wire, removed_ids, ioc_stopped,
                   signals_waiting, start_pc, registered, m_running, exit_code>>

----------------------------------------------------------------------------
(* worker_pool::worker_loop (one worker thread each) *)

IdleWorker == [pc |-> "wait", seq |-> 0, payload |-> <<>>, snap |-> NullPtr]

\* the thread does not exist before worker_pool::start
UnstartedWorker == [IdleWorker EXCEPT !.pc = "unstarted"]

\* the thread has left worker_loop
ExitedWorker == [IdleWorker EXCEPT !.pc = "exit"]

\* wait_dequeue_timed returned an element
WorkerDequeue(w) ==
    /\ ProcessAlive
    /\ workers[w].pc = "wait"
    /\ m_queue # <<>>
    /\ m_queue' = Tail(m_queue)
    /\ workers' = [workers EXCEPT ![w] =
                      [pc |-> IF Head(m_queue).payload = <<>> THEN "exit" ELSE "load",
                       seq |-> Head(m_queue).seq,
                       payload |-> Head(m_queue).payload,
                       snap |-> NullPtr]]
    /\ UNCHANGED <<mgr_vars, heap, last, m_messages_received, tasks, m_processed,
                   m_matched, m_published, m_match_failures, wire, inbound, removed_ids,
                   life_vars>>

\* while (m_running.load()) at the head of the loop reads false
WorkerExit(w) ==
    /\ ProcessAlive
    /\ workers[w].pc = "wait"
    /\ ~m_running
    /\ workers' = [workers EXCEPT ![w] = ExitedWorker]
    /\ UNCHANGED <<mgr_vars, heap, last, m_messages_received, m_queue, tasks,
                   m_processed, m_matched, m_published, m_match_failures, wire,
                   inbound, removed_ids, life_vars>>

\* the snapshot a worker matches against: auto snap = m_sub_mgr.snapshot()
LoadedSnapshot(w) == snapshot

\* (the slot is never null: the constructor publishes the empty snapshot,
\* so the !snap || !snap->tree guard does not fire)
WorkerLoadSnapshot(w) ==
    /\ ProcessAlive
    /\ workers[w].pc = "load"
    /\ workers' = [workers EXCEPT ![w].pc = "match", ![w].snap = LoadedSnapshot(w)]
    /\ UNCHANGED <<mgr_vars, heap, last, m_messages_received, m_queue, tasks,
                   m_processed, m_matched, m_published, m_match_failures, wire,
                   inbound, removed_ids, life_vars>>

\* ascending order of a sequence of distinct numbers
RECURSIVE Ascending(_)
Ascending(ids) ==
    IF ids = <<>> THEN <<>>
    ELSE LET lo   == CHOOSE x \in {ids[i] : i \in 1..Len(ids)} :
                         \A y \in {ids[i] : i \in 1..Len(ids)} : x <= y
             rest == SelectSeq(ids, LAMBDA y : y # lo)
         IN  <<lo>> \o Ascending(rest)

\* a slip: the match list is put in ascending order before it is handed over
PublishTaskSorted(matched_ids, payload, snap) ==
    [matched_ids |-> Ascending(matched_ids), payload_copy |-> payload,
     snap_copy |-> snap, next |-> 1]

\* what the worker moves into the publish coroutine
PublishTask(matched_ids, payload, snap) ==
    [matched_ids |-> matched_ids, payload_copy |-> payload, snap_copy |-> snap, next |-> 1]

\* a slip: the message is matched but not counted as processed
ProcessedNotCounted(processed) == processed

\* m_processed.fetch_add(1): every message that was deserialized and matched
ProcessedAfterMatch(processed) == processed + 1

\* match, count, and hand a non-empty match list to the I/O thread
WorkerMatch(w) ==
    /\ ProcessAlive
    /\ workers[w].pc = "match"
    /\ \E m \in deserialize_and_match(heap[workers[w].snap].tree, workers[w].payload) :
         /\ m_processed' = ProcessedAfterMatch(m_processed)
         /\ m_match_failures' = IF m = <<>> THEN m_match_failures + 1 ELSE m_match_failures
         /\ IF m # <<>> /\ m[1] # <<>>
            THEN /\ m_matched' = m_matched + 1
                 /\ tasks' = (workers[w].seq :>
                                 PublishTask(m[1], workers[w].payload, workers[w].snap))
                             @@ tasks
                 /\ wire' = (workers[w].seq :>
                                [ids      |-> m[1],
                                 subjects |-> heap[workers[w].snap].output_subjects,
                                 sent     |-> <<>>])
                            @@ wire
            ELSE UNCHANGED <<m_matched, tasks, wire>>
    /\ workers' = [workers EXCEPT ![w] = IdleWorker]
    /\ heap' = Release(heap, Refs(m_snapshot, workers', tasks'))
    /\ UNCHANGED <<mgr_vars, last, m_messages_received, m_queue, m_published,
                   inbound, removed_ids, life_vars>>

----------------------------------------------------------------------------
(* the publish coroutine, running on the I/O thread *)

\* the first position >= i of ids whose id has an output subject, or
\* Len(ids) + 1: ids without one are skipped without suspending
RECURSIVE NextPresent(_, _, _)
NextPresent(ids, i, subjects) ==
    IF i > Len(ids) THEN i
    ELSE IF ids[i] \in DOMAIN subjects THEN i
    ELSE NextPresent(ids, i + 1, subjects)

\* a slip: subjects are looked up in whatever snapshot is current
TaskSubjectsCurrent(t) == heap[m_snapshot].output_subjects

\* the map the coroutine looks subjects up in: snap_copy->output_subjects
TaskSubjects(t) == heap[tasks[t].snap_copy].output_subjects

\* the position the coroutine publishes next
TaskPosition(t) == NextPresent(tasks[t].matched_ids, tasks[t].next, TaskSubjects(t))

\* the bytes handed to conn->publish: a span over payload_copy
TaskPayload(t) == tasks[t].payload_copy

\* a slip: the counter is incremented whatever the status
PublishedAfterAttempt(published, ok) == published + 1

\* if (s.failed()) log->warn(...) else published_counter.fetch_add(1)
PublishedAfter(published, ok) == IF ok THEN published + 1 ELSE published

\* one turn of the for loop: co_await conn->publish(subject, payload); the
\* bus reports success or failure; the coroutine ends after the last id
TaskStep(t, ok) ==
    /\ IoRunning
    /\ t \in DOMAIN tasks
    /\ LET ids == tasks[t].matched_ids
           j   == TaskPosition(t)
       IN  /\ IF j <= Len(ids)
              THEN /\ wire' = [wire EXCEPT ![t].sent =
                                  Append(@, [subject |-> TaskSubjects(t)[ids[j]],
                                             payload |-> TaskPayload(t)])]
                   /\ m_published' = PublishedAfter(m_published, ok)
              ELSE UNCHANGED <<wire, m_published>>
           /\ tasks' = IF NextPresent(ids, j + 1, TaskSubjects(t)) <= Len(ids)
                       THEN [tasks EXCEPT ![t].next = j + 1]
                       ELSE erase(tasks, t)
    /\ heap' = Release(heap, Refs(m_snapshot, workers, tasks'))
    /\ UNCHANGED <<mgr_vars, last, m_messages_received, m_queue, workers, m_processed,
                   m_matched, m_match_failures, inbound, removed_ids, life_vars>>

----------------------------------------------------------------------------
(* sidecar_engine::start, the signal handler and main's shutdown sequence *)

\* the subjects start subscribes to, in this order, before the lease watch
StartSubjects == <<"input", "subscribe", "unsubscribe">>

\* the step of start that follows the subscription to subject
AfterSubject(subject) ==
    IF subject = "input" THEN "subscribe"
    ELSE IF subject = "subscribe" THEN "unsubscribe"
    ELSE "lease"

\* co_await m_conn->subscribe(...) has completed with status ok: on failure
\* start stops the I/O loop and returns
StartSubscribe(ok) ==
    /\ IoRunning
    /\ start_pc \in {StartSubjects[i] : i \in 1..Len(StartSubjects)}
    /\ IF ok
       THEN /\ registered' = registered \cup {start_pc}
            /\ start_pc' = AfterSubject(start_pc)
            /\ UNCHANGED ioc_stopped
       ELSE /\ start_pc' = "failed"
            /\ ioc_stopped' = TRUE
            /\ UNCHANGED registered
    /\ UNCHANGED <<mgr_vars, heap, last, pipe_vars, inbound, removed_ids, main_pc,
                   signals_waiting, m_running, exit_code>>

\* the pills stop enqueues: one empty vector per thread
PoisonPills == [i \in 1..Cardinality(Workers) |-> [seq |-> 0, payload |-> <<>>]]

\* a slip: a failed watch is treated like a failed subscription
StartGoesOnIfWatching(lease_ok) == lease_ok

\* if (!lease_ok) only logs a warning: start goes on either way
StartGoesOn(lease_ok) == TRUE

\* co_await m_lease_mgr->start() has completed (a failed watch is only
\* warned about); start goes on, without suspending, to create and start
\* the worker pool and to spawn stats_loop
StartLeaseAndPool(ok) ==
    /\ IoRunning
    /\ start_pc = "lease"
    /\ registered' = IF ok THEN registered \cup {"kv"} ELSE registered
    /\ IF StartGoesOn(ok)
       THEN /\ m_running' = TRUE
            /\ workers' = [w \in Workers |-> IdleWorker]
            /\ start_pc' = "done"
            /\ UNCHANGED ioc_stopped
       ELSE /\ start_pc' = "failed"
            /\ ioc_stopped' = TRUE
            /\ UNCHANGED <<m_running, workers>>
    /\ UNCHANGED <<mgr_vars, heap, last, m_messages_received, m_queue, tasks,
                   m_processed, m_matched, m_published, m_match_failures, wire,
                   inbound, removed_ids, main_pc, signals_waiting, exit_code>>

\* SIGINT / SIGTERM: the handler of the one async_wait runs and stops the loop
SignalHandler ==
    /\ IoRunning
    /\ signals_waiting
    /\ signals_waiting' = FALSE
    /\ ioc_stopped' = TRUE
    /\ UNCHANGED <<mgr_vars, heap, last, pipe_vars, inbound, removed_ids, main_pc,
                   start_pc, registered, m_running, exit_code>>

\* ioc.run() returns: the io_context was stopped or has run out of work
IoRunReturns == ioc_stopped \/ ~OutstandingWork

\* a slip: the loop is run again without restart()
IoRestartMissing == ioc_stopped

\* the stopped flag after ioc.restart()
IoRestart == FALSE

\* a slip: stop joins the threads without clearing the flag or enqueuing
\* the pills
StopWorkersJoinOnly ==
    /\ main_pc = "run"
    /\ IoRunReturns
    /\ IF PoolCreated /\ m_running
       THEN /\ main_pc' = "join"
            /\ UNCHANGED ioc_stopped
       ELSE /\ main_pc' = "run_again"
            /\ ioc_stopped' = IoRestart
    /\ UNCHANGED <<mgr_vars, heap, last, pipe_vars, inbound, removed_ids,
                   signals_waiting, start_pc, registered, m_running, exit_code>>

\* the first ioc.run() has returned; engine->stop_workers(): with a pool,
\* worker_pool::stop clears m_running and enqueues the pills, then joins
StopWorkers ==
    /\ main_pc = "run"
    /\ IoRunReturns
    /\ IF PoolCreated /\ m_running
       THEN /\ m_running' = FALSE
            /\ m_queue' = m_queue \o PoisonPills
            /\ main_pc' = "join"
            /\ UNCHANGED ioc_stopped
       ELSE /\ main_pc' = "run_again"
            /\ ioc_stopped' = IoRestart
            /\ UNCHANGED <<m_running, m_queue>>
    /\ UNCHANGED <<mgr_vars, heap, last, m_messages_received, workers, tasks,
                   m_processed, m_matched, m_published, m_match_failures, wire,
                   inbound, removed_ids, signals_waiting, start_pc, registered,
                   exit_code>>

\* every thread has been joined: stop returns, main restarts the loop and
\* runs it again
JoinWorkers ==
    /\ main_pc = "join"
    /\ \A w \in Workers : workers[w].pc = "exit"
    /\ main_pc' = "run_again"
    /\ ioc_stopped' = IoRestart
    /\ UNCHANGED <<mgr_vars, heap, last, pipe_vars, inbound, removed_ids,
                   signals_waiting, start_pc, registered, m_running, exit_code>>

\* return 0 at the end of main
MainReturnValue == 0

\* the second ioc.run() has returned: main logs and returns
MainReturns ==
    /\ main_pc = "run_again"
    /\ IoRunReturns
    /\ main_pc' = "returned"
    /\ exit_code' = <<MainReturnValue>>
    /\ UNCHANGED <<mgr_vars, heap, last, pipe_vars, inbound, removed_ids,
                   ioc_stopped, signals_waiting, start_pc, registered, m_running>>

----------------------------------------------------------------------------
(* Specifications *)

\* after construction of the engine: the manager's constructor has
\* published the empty snapshot, nothing has been received
EngineConstructed ==
    /\ m_next_id = 1
    /\ m_expr_to_id = <<>>
    /\ m_subscriptions = <<>>
    /\ m_snapshot = 1
    /\ heap = [a \in Addrs |-> IF a = 1 THEN BuildSnapshot(<<>>) ELSE FreeCell]
    /\ last = NoOutcome
    /\ m_messages_received = 0
    /\ m_queue = <<>>
    /\ tasks = <<>>
    /\ m_processed = 0
    /\ m_matched = 0
    /\ m_published = 0
    /\ m_match_failures = 0
    /\ wire = <<>>
    /\ inbound = <<>>
    /\ removed_ids = {}

\* the engine in service: start has run to its end with every subscription
\* and the watch established, the workers wait, no signal has come
Init ==
    /\ EngineConstructed
    /\ workers = [w \in Workers |-> IdleWorker]
    /\ main_pc = "run"
    /\ ioc_stopped = FALSE
    /\ signals_waiting = TRUE
    /\ start_pc = "done"
    /\ registered = {"input", "subscribe", "unsubscribe", "kv"}
    /\ m_running = TRUE
    /\ exit_code = <<>>

\* the process as main enters its first ioc.run(): the engine is built,
\* start is about to subscribe to the input subject
LifeInit ==
    /\ EngineConstructed
    /\ workers = [w \in Workers |-> UnstartedWorker]
    /\ main_pc = "run"
    /\ ioc_stopped = FALSE
    /\ signals_waiting = TRUE
    /\ start_pc = "input"
    /\ registered = {}
    /\ m_running = FALSE
    /\ exit_code = <<>>

Ids == 1..(MaxId + 1)

\* a direct call of the manager's API, its outcome kept for the caller
CallSubscribe(expression, client_id) ==
    /\ subscribe(expression, client_id)
    /\ last' = SubscribeReturn(expression, client_id)
    /\ UNCHANGED <<pipe_vars, inbound, life_vars>>

CallRemoveLease(subscription_id, client_id) ==
    /\ remove_lease(subscription_id, client_id)
    /\ last' = RemoveOutcome("remove_lease",
                             RemoveLeaseReturns(subscription_id, client_id),
                             RemoveLeaseLog(subscription_id, client_id))
    /\ UNCHANGED <<pipe_vars, inbound, life_vars>>

CallRemoveSubscription(subscription_id) ==
    /\ remove_subscription(subscription_id)
    /\ last' = RemoveOutcome("remove_subscription",
                             RemoveSubscriptionReturns(subscription_id),
                             IF RemoveSubscriptionReturns(subscription_id)
                             THEN "Force-removed subscription" ELSE "")
    /\ UNCHANGED <<pipe_vars, inbound, life_vars>>

\* sidecar_engine::on_subscribe_request for a well-formed request with a
\* reply subject: subscribe, then send the reply (or the error) on the bus
OnSubscribeRequest(expression, client_id) ==
    /\ IoRunning
    /\ "subscribe" \in registered
    /\ subscribe(expression, client_id)
    /\ UNCHANGED <<last, pipe_vars, inbound, life_vars>>

\* sidecar_engine::on_unsubscribe_request for a well-formed request:
\* remove_lease, then send the reply on the bus
OnUnsubscribeRequest(subscription_id, client_id) ==
    /\ IoRunning
    /\ "unsubscribe" \in registered
    /\ remove_lease(subscription_id, client_id)
    /\ UNCHANGED <<last, pipe_vars, inbound, life_vars>>

\* lease_manager::on_kv_entry for a del/purge event whose key names
\* subscription_id and client_id: delivered only while the watch exists
OnLeaseEvent(subscription_id, client_id) ==
    /\ IoRunning
    /\ "kv" \in registered
    /\ parse_lease_key(make_lease_key(subscription_id, client_id)) =
           [ok |-> TRUE, subscription_id |-> subscription_id, client_id |-> client_id]
    /\ remove_lease(subscription_id, client_id)
    /\ UNCHANGED <<last, pipe_vars, inbound, life_vars>>

\* remove_subscription called for its effect, the result not kept
ForceRemoveSubscription(subscription_id) ==
    /\ IoRunning
    /\ remove_subscription(subscription_id)
    /\ UNCHANGED <<last, pipe_vars, inbound, life_vars>>

\* the subscription manager driven through its API and by the lease watch
WriterNext ==
    \/ \E e \in Exprs, c \in Clients : CallSubscribe(e, c)
    \/ \E id \in Ids, c \in Clients : CallRemoveLease(id, c)
    \/ \E id \in Ids : CallRemoveSubscription(id)
    \/ \E kvop \in KvOps, key \in KvKeys : OnKvEntry(kvop, key)

SpecMgr == Init /\ [][WriterNext]_vars

\* the running engine: control requests, data messages, workers, publishes.
\* A lease event acts on the manager as an unsubscribe request for the
\* parsed id and client does; SpecMgr covers the parsing, SpecCtl the events.
Next ==
    \/ \E e \in Exprs, c \in Clients : OnSubscribeRequest(e, c)
    \/ \E id \in Ids, c \in Clients : OnUnsubscribeRequest(id, c)
    \/ \E id \in Ids : ForceRemoveSubscription(id)
    \/ \E p \in Payloads : OnDataMessage(p)
    \/ \E w \in Workers : WorkerDequeue(w)
    \/ \E w \in Workers : WorkerLoadSnapshot(w)
    \/ \E w \in Workers : WorkerMatch(w)
    \/ \E t \in 1..MaxMsgs, ok \in BOOLEAN : TaskStep(t, ok)

Spec == Init /\ [][Next]_vars

----------------------------------------------------------------------------
(* The control handlers in full: the request's reply subject and JSON body,
   the manager call and the reply published on the bus *)

\* request payloads: text that is not JSON, and JSON objects with and
\* without the members the handlers read (a client_id may be the empty
\* string). Each member is [type, v]: absent,
\* a string or a number, and the value read when the type is the expected one
RequestBodies ==
    LET no_e      == [type |-> "absent", v |-> ""]
        no_c      == [type |-> "absent", v |-> <<>>]
        no_i      == [type |-> "absent", v |-> 0]
        str_e(e)  == [type |-> "string", v |-> e]
        str_c(c)  == [type |-> "string", v |-> c]
        num_i(i)  == [type |-> "number", v |-> i]
        num_e     == [type |-> "number", v |-> ""]
        num_c     == [type |-> "number", v |-> <<>>]
        str_i     == [type |-> "string", v |-> 0]
        obj(e, c, i) == [json |-> TRUE, expression |-> e, client_id |-> c, id |-> i]
    IN  { [obj(no_e, no_c, no_i) EXCEPT !.json = FALSE], obj(no_e, no_c, no_i) }
        \cup { obj(str_e(e), str_c(c), no_i) : e \in Exprs, c \in Clients }
        \cup { obj(str_e("e1"), str_c(<<>>), no_i),
               obj(str_e("e1"), no_c, no_i),
               obj(no_e, str_c(<<"c">>), no_i),
               obj(num_e, str_c(<<"c">>), no_i),
               obj(str_e("e1"), num_c, no_i) }
        \cup { obj(no_e, str_c(c), num_i(i)) : i \in Ids, c \in Clients }
        \cup { obj(no_e, no_c, num_i(1)),
               obj(no_e, str_c(<<"c">>), str_i),
               obj(no_e, num_c, num_i(1)) }

\* the optional reply subject of a message: none, a subject, the empty text
ReplyTos == { <<>>, <<"r">>, <<"">> }

\* json::parse(payload).at(name).get<T>(): the value, or an exception when
\* the text is not JSON, the member is missing or its type is not T's
json_get(body, name, type) ==
    [ok |-> body.json /\ body[name].type = type, v |-> body[name].v]

\* what a handler did: the manager calls it made and the replies it published
RequestOutcome(op, calls, replies) == [op |-> op, calls |-> calls, replies |-> replies]

\* a slip: the topic is the bare id, without the output prefix
SubscribeReplyBareTopic(sub_id, client_id) ==
    [id |-> sub_id, topic |-> to_string(sub_id),
     lease_bucket |-> "lease_bucket", lease_key |-> make_lease_key(sub_id, client_id),
     lease_ttl_seconds |-> "lease_ttl_seconds"]

\* the reply to a successful subscribe (bucket and ttl are configuration)
SubscribeReply(sub_id, client_id) ==
    [id |-> sub_id, topic |-> m_output_prefix \o <<".">> \o to_string(sub_id),
     lease_bucket |-> "lease_bucket", lease_key |-> make_lease_key(sub_id, client_id),
     lease_ttl_seconds |-> "lease_ttl_seconds"]

\* sidecar_engine::on_subscribe_request
on_subscribe_request(reply_to, body) ==
    /\ IoRunning
    /\ "subscribe" \in registered
    /\ IF reply_to = <<>>
       THEN /\ last' = RequestOutcome("on_subscribe_request", <<>>, <<>>)
            /\ UNCHANGED <<mgr_vars, heap, removed_ids>>
       ELSE LET expression == json_get(body, "expression", "string")
                client_id  == json_get(body, "client_id", "string")
                reply(r)   == <<[subject |-> reply_to[1], body |-> r]>>
            IN  IF ~expression.ok \/ ~client_id.ok
                THEN /\ last' = RequestOutcome("on_subscribe_request", <<>>,
                                               reply([error |-> "Bad request"]))
                     /\ UNCHANGED <<mgr_vars, heap, removed_ids>>
                ELSE LET ret == SubscribeReturn(expression.v, client_id.v)
                     IN  /\ subscribe(expression.v, client_id.v)
                         /\ last' = RequestOutcome(
                                "on_subscribe_request",
                                <<[fn |-> "subscribe", expression |-> expression.v,
                                   client_id |-> client_id.v]>>,
                                reply(IF ret.threw
                                      THEN [error |-> "Invalid expression"]
                                      ELSE SubscribeReply(ret.ret_id, client_id.v)))
    /\ UNCHANGED <<pipe_vars, inbound, life_vars>>

\* a slip: the reply reports a removal whenever the request was served
UnsubscribeReplyAlways(sub_id, fully_removed) == [id |-> sub_id, removed |-> TRUE]

\* the reply to an unsubscribe
UnsubscribeReply(sub_id, fully_removed) == [id |-> sub_id, removed |-> fully_removed]

\* sidecar_engine::on_unsubscribe_request
on_unsubscribe_request(reply_to, body) ==
    /\ IoRunning
    /\ "unsubscribe" \in registered
    /\ LET reply_subject == IF reply_to = <<>> THEN "" ELSE reply_to[1]
           sub_id    == json_get(body, "id", "number")
           client_id == json_get(body, "client_id", "string")
           reply(r)  == IF reply_subject = "" THEN <<>>
                        ELSE <<[subject |-> reply_subject, body |-> r]>>
       IN  IF ~sub_id.ok \/ ~client_id.ok
           THEN /\ last' = RequestOutcome("on_unsubscribe_request", <<>>,
                                          reply([error |-> "Bad request"]))
                /\ UNCHANGED <<mgr_vars, heap, removed_ids>>
           ELSE /\ remove_lease(sub_id.v, client_id.v)
                /\ last' = RequestOutcome(
                       "on_unsubscribe_request",
                       <<RemoveLeaseCall(sub_id.v, client_id.v)>>,
                       reply(UnsubscribeReply(sub_id.v,
                                              RemoveLeaseReturns(sub_id.v, client_id.v))))
    /\ UNCHANGED <<pipe_vars, inbound, life_vars>>

\* the control subjects and the lease watch on their own
CtlNext ==
    \/ \E reply_to \in ReplyTos, body \in RequestBodies :
          on_subscribe_request(reply_to, body)
    \/ \E reply_to \in ReplyTos, body \in RequestBodies :
          on_unsubscribe_request(reply_to, body)
    \/ \E id \in Ids, c \in Clients : OnLeaseEvent(id, c)

SpecCtl == Init /\ [][CtlNext]_vars

\* the data path on its own: subscriptions are created, messages of every
\* kind arrive and are matched and published
MatchNext ==
    \/ \E e \in Exprs, c \in Clients : OnSubscribeRequest(e, c)
    \/ \E p \in MatchPayloads : OnDataMessage(p)
    \/ \E w \in Workers : WorkerDequeue(w)
    \/ \E w \in Workers : WorkerLoadSnapshot(w)
    \/ \E w \in Workers : WorkerMatch(w)
    \/ \E t \in 1..MaxMsgs, ok \in BOOLEAN : TaskStep(t, ok)

SpecMatch == Init /\ [][MatchNext]_vars

\* what the I/O thread does of its own accord once it is running
IoSteps == \E t \in 1..MaxMsgs, ok \in BOOLEAN : TaskStep(t, ok)

\* the steps of main's shutdown sequence
MainSteps == StopWorkers \/ JoinWorkers \/ MainReturns

\* the steps of worker thread w
WorkerSteps(w) ==
    WorkerDequeue(w) \/ WorkerExit(w) \/ WorkerLoadSnapshot(w) \/ WorkerMatch(w)

\* the process from start-up to exit
LifeNext ==
    \/ \E ok \in BOOLEAN : StartSubscribe(ok)
    \/ \E ok \in BOOLEAN : StartLeaseAndPool(ok)
    \/ SignalHandler
    \/ StopWorkers
    \/ JoinWorkers
    \/ MainReturns
    \/ \E e \in Exprs, c \in Clients : OnSubscribeRequest(e, c)
    \/ \E p \in Payloads : OnDataMessage(p)
    \/ \E w \in Workers : WorkerDequeue(w)
    \/ \E w \in Workers : WorkerExit(w)
    \/ \E w \in Workers : WorkerLoadSnapshot(w)
    \/ \E w \in Workers : WorkerMatch(w)
    \/ \E t \in 1..MaxMsgs, ok \in BOOLEAN : TaskStep(t, ok)

\* threads that can run do run: the I/O thread takes up posted coroutines,
\* main goes on through its sequence, each worker goes round its loop
SpecLife ==
    /\ LifeInit
    /\ [][LifeNext]_vars
    /\ WF_vars(IoSteps)
    /\ WF_vars(MainSteps)
    /\ \A w \in Workers : WF_vars(WorkerSteps(w))

----------------------------------------------------------------------------
(* The lease-key functions on their own: make_lease_key followed by
   parse_lease_key, and parse_lease_key on arbitrary key texts *)

\* subscription ids handed to make_lease_key
KeyIds == {0, 7, 10, 42, 1000, 2147483647}

\* the longest text explored
MaxKeyLen == 4

\* all texts over alphabet of length at most n
RECURSIVE Texts(_, _)
Texts(alphabet, n) ==
    IF n = 0 THEN { <<>> }
    ELSE LET shorter == Texts(alphabet, n - 1)
         IN  shorter \cup { Append(t, ch) : t \in shorter, ch \in alphabet }

\* non-empty client ids, some with '.' inside, first or last
KeyClients == Texts({"c", "."}, MaxKeyLen - 1) \ { <<>> }

\* key texts: digits, a letter and the separator in every arrangement
KeyTexts == Texts({"0", "1", "x", "."}, MaxKeyLen)

\* parse_lease_key(make_lease_key(id, client_id), ...)
MakeAndParse(id, client_id) ==
    /\ last' = [op |-> "make_and_parse", id |-> id, client_id |-> client_id,
                key |-> make_lease_key(id, client_id),
                parsed |-> parse_lease_key(make_lease_key(id, client_id))]
    /\ UNCHANGED <<mgr_vars, heap, pipe_vars, inbound, removed_ids, life_vars>>

\* parse_lease_key(key, ...)
ParseKey(key) ==
    /\ last' = [op |-> "parse", key |-> key, parsed |-> parse_lease_key(key)]
    /\ UNCHANGED <<mgr_vars, heap, pipe_vars, inbound, removed_ids, life_vars>>

KeyNext ==
    \/ \E id \in KeyIds, c \in KeyClients : MakeAndParse(id, c)
    \/ \E key \in KeyTexts : ParseKey(key)

SpecKey == Init /\ [][KeyNext]_vars

----------------------------------------------------------------------------
(* event_bridge: populate_event on a decoded payload. A decoded value is
   [kind, v, elems, fault]: the kind the reader's isXxx tests report, the
   text of what the asXxx accessors return, the elements of an array, and
   where the decoder throws for it: nowhere, in reader[key], or in the
   accessors. *)

\* the configured attributes: name and declared attribute_type
Schema ==
    [b  |-> "boolean", i  |-> "integer",     f  |-> "float_val",
     s  |-> "string",  sl |-> "string_list", il |-> "integer_list"]

\* attribute_schema::lookup
lookup(key) == IF key \in DOMAIN Schema THEN <<Schema[key]>> ELSE <<>>

\* scalar values of every kind the reader distinguishes
ScalarValues ==
    { [kind |-> "null",   v |-> "",     elems |-> <<>>, fault |-> "none"],
      [kind |-> "bool",   v |-> "true", elems |-> <<>>, fault |-> "none"],
      [kind |-> "int",    v |-> "-1",   elems |-> <<>>, fault |-> "none"],
      [kind |-> "uint",   v |-> "2",    elems |-> <<>>, fault |-> "none"],
      [kind |-> "float",  v |-> "3.5",  elems |-> <<>>, fault |-> "none"],
      [kind |-> "string", v |-> "s",    elems |-> <<>>, fault |-> "none"],
      [kind |-> "map",    v |-> "",     elems |-> <<>>, fault |-> "none"] }

\* every value a payload field may hold: the scalars and the arrays of up
\* to two elements, each with every place where the decoder may throw
FieldValues ==
    LET elements == { [kind |-> e.kind, v |-> e.v] :
                        e \in { x \in ScalarValues :
                                  x.kind \in {"string", "int", "uint", "bool"} } }
        arrays   == { [kind |-> "array", v |-> "", elems |-> a, fault |-> "none"] :
                        a \in { <<>> } \cup { <<x>> : x \in elements }
                                       \cup { <<x, y>> : x \in elements, y \in elements } }
    IN  { [val EXCEPT !.fault = ft] :
            val \in ScalarValues \cup arrays, ft \in {"none", "lookup", "extract"} }

\* decoded payloads: roots that are not maps, and maps of one or two fields
\* whose keys are the schema's or one the schema does not know
EventRoots ==
    LET keys == DOMAIN Schema \cup {"zz"}
    IN  { [kind |-> k, fields |-> <<>>] : k \in {"null", "array", "string", "map"} }
        \cup { [kind |-> "map", fields |-> <<[key |-> k, value |-> val]>>] :
                 k \in keys, val \in FieldValues }
        \cup { [kind |-> "map",
                fields |-> <<[key |-> k, value |-> val],
                             [key |-> "s",
                              value |-> [kind |-> "string", v |-> "s", elems |-> <<>>,
                                         fault |-> "none"]]>>] :
                 k \in keys \ {"s"}, val \in FieldValues }

\* a builder call: the setter, the attribute, the scalar or the list passed
BuilderCall(call, key, value, list) ==
    [call |-> call, key |-> key, value |-> value, list |-> list]

\* builder.with_undefined(key)
WithUndefined(key) == BuilderCall("with_undefined", key, "", <<>>)

\* the elements of an array that pass the kind test, in order, as the
\* accessor returns them
Collect(value, kinds) ==
    LET kept == SelectSeq(value.elems, LAMBDA e : e.kind \in kinds)
    IN  [n \in 1..Len(kept) |-> kept[n].v]

\* the switch over the declared type: the builder call made for one field
TypedCall(type, key, value) ==
    CASE type = "boolean" ->
           IF value.kind = "bool"
           THEN BuilderCall("with_boolean", key, value.v, <<>>)
           ELSE WithUndefined(key)
      [] type = "integer" ->
           IF value.kind \in {"int", "uint"}
           THEN BuilderCall("with_integer", key, value.v, <<>>)
           ELSE WithUndefined(key)
      [] type = "float_val" ->
           IF value.kind = "float"
           THEN BuilderCall("with_float", key, value.v, <<>>)
           ELSE IF value.kind \in {"int", "uint"}
                THEN BuilderCall("with_float", key, value.v \o ".0", <<>>)
                ELSE WithUndefined(key)
      [] type = "string" ->
           IF value.kind = "string"
           THEN BuilderCall("with_string", key, value.v, <<>>)
           ELSE WithUndefined(key)
      [] type = "string_list" ->
           IF value.kind = "array"
           THEN BuilderCall("with_string_list", key, "", Collect(value, {"string"}))
           ELSE WithUndefined(key)
      [] type = "integer_list" ->
           IF value.kind = "array"
           THEN BuilderCall("with_integer_list", key, "", Collect(value, {"int", "uint"}))
           ELSE WithUndefined(key)

\* the try block and its catch: an exception thrown while the value is
\* tested and extracted ends in builder.with_undefined(key)
FieldCall(type, key, value) ==
    IF value.fault = "extract" THEN WithUndefined(key)
    ELSE TypedCall(type, key, value)

\* the loop over reader.mapKeys() from position n on: keys the schema does
\* not know are skipped; reader[key] is evaluated outside the try block, so
\* an exception from it leaves populate_event
RECURSIVE PopulateFrom(_, _, _)
PopulateFrom(fields, n, calls) ==
    IF n > Len(fields) THEN [outcome |-> "true", calls |-> calls]
    ELSE LET key   == fields[n].key
             value == fields[n].value
         IN  IF lookup(key) = <<>> THEN PopulateFrom(fields, n + 1, calls)
             ELSE IF value.fault = "lookup"
                  THEN [outcome |-> "throws", calls |-> calls]
                  ELSE PopulateFrom(fields, n + 1,
                                    Append(calls, FieldCall(lookup(key)[1], key, value)))

\* populate_event: what it returns (or that it throws) and the builder
\* calls it has made
populate_event(root) ==
    IF root.kind # "map" THEN [outcome |-> "false", calls |-> <<>>]
    ELSE PopulateFrom(root.fields, 1, <<>>)

\* populate_event applied to a decoded payload (the function keeps no
\* state between calls: one call per behaviour covers every input)
PopulateEvent(root) ==
    /\ last.op = "none"
    /\ last' = [op |-> "populate_event", root |-> root,
                outcome |-> populate_event(root).outcome,
                calls |-> populate_event(root).calls]
    /\ UNCHANGED <<mgr_vars, heap, pipe_vars, inbound, removed_ids, life_vars>>

EventNext == \E root \in EventRoots : PopulateEvent(root)

SpecEvent == Init /\ [][EventNext]_vars

----------------------------------------------------------------------------
(* Properties *)

LiveIds == DOMAIN m_subscriptions

Holders(id) == m_subscriptions[id].lease_holders

\* subject is output_prefix, a '.', and the decimal text of id
SubjectNames(subject, id) ==
    LET n  == Len(m_output_prefix)
        ds == SubSeq(subject, n + 2, Len(subject))
    IN  /\ Len(subject) >= n + 2
        /\ SubSeq(subject, 1, n) = m_output_prefix
        /\ subject[n + 1] = "."
        /\ \A i \in 1..Len(ds) : IsDigit(ds[i])
        /\ Len(ds) = 1 \/ ds[1] # "0"
        /\ DecimalValue(ds, 0) = id

\* C1: a subscribe of an expression that is already live with id i returns
\* i without throwing, adds the client to i's lease holders, and leaves the
\* live ids, the expression index, m_next_id and active_count as they were.
C1_DuplicateSubscribe ==
    [][\A e \in Exprs, c \in Clients :
          (e \in DOMAIN m_expr_to_id /\ CallSubscribe(e, c)) =>
              LET i == m_expr_to_id[e]
              IN  /\ last'.ret_id = i
                  /\ ~last'.threw
                  /\ LiveIds' = LiveIds
                  /\ Holders(i)' = Holders(i) \cup {c}
                  /\ \A k \in LiveIds \ {i} : m_subscriptions'[k] = m_subscriptions[k]
                  /\ m_expr_to_id' = m_expr_to_id
                  /\ m_next_id' = m_next_id
                  /\ active_count' = active_count]_vars

\* a second client has subscribed to the one live expression
C1_Witness ==
    /\ last.op = "subscribe"
    /\ last.log = "Reused subscription"
    /\ last.ret_id \in LiveIds
    /\ Cardinality(Holders(last.ret_id)) = 2
    /\ active_count = 1

\* C2: two distinct live expressions never share an id, and active_count is
\* the number of distinct live expressions.
C2_DistinctIds ==
    /\ \A e1, e2 \in DOMAIN m_expr_to_id : e1 # e2 => m_expr_to_id[e1] # m_expr_to_id[e2]
    /\ active_count = Cardinality(DOMAIN m_expr_to_id)

\* two expressions are live at once
C2_Witness ==
    /\ Cardinality(DOMAIN m_expr_to_id) = 2
    /\ active_count = 2

\* C3: for a live id, remove_lease(id, c) returns true exactly when taking c
\* out leaves no holder; then the subscription is gone and active_count is
\* one less; otherwise it stays live with the holders minus c and
\* active_count is unchanged.
C3_RemoveLease ==
    [][\A id \in Ids, c \in Clients :
          (id \in LiveIds /\ CallRemoveLease(id, c)) =>
              LET rest == Holders(id) \ {c}
              IN  /\ last'.ret_removed <=> (rest = {})
                  /\ last'.ret_removed =>
                        /\ id \notin LiveIds'
                        /\ active_count' = active_count - 1
                  /\ ~last'.ret_removed =>
                        /\ id \in LiveIds'
                        /\ Holders(id)' = rest
                        /\ active_count' = active_count]_vars

\* one of two holders was removed, and the subscription is still counted
C3_WitnessPartial ==
    /\ last.op = "remove_lease"
    /\ last.log = "Removed lease"
    /\ ~last.ret_removed
    /\ active_count = 1
    /\ \E id \in LiveIds : Cardinality(Holders(id)) = 1

\* C4: a subscribe that throws leaves the writer state, the snapshot slot
\* and the snapshot objects exactly as before, the rejected expression is
\* not indexed, and a subscribe that creates a subscription always returns
\* the value m_next_id had before it (so the id a failed call had taken
\* goes to the next one that succeeds).
C4_InvalidExpressionRollback ==
    [][\A e \in Exprs, c \in Clients :
          CallSubscribe(e, c) =>
              /\ last'.threw =>
                    /\ m_subscriptions' = m_subscriptions
                    /\ m_expr_to_id' = m_expr_to_id
                    /\ m_next_id' = m_next_id
                    /\ m_snapshot' = m_snapshot
                    /\ heap' = heap
                    /\ active_count' = active_count
                    /\ find_by_expression(e)' = <<>>
              /\ last'.log = "New subscription" => last'.ret_id = m_next_id]_vars

\* a subscribe has thrown while a subscription was live and ids had been used
C4_Witness ==
    /\ last.op = "subscribe"
    /\ last.threw
    /\ LiveIds # {}
    /\ m_next_id > 1

\* C5: between writer operations the published snapshot holds exactly the
\* live subscriptions: its subjects' keys are the live ids, its tree holds
\* each live id with its expression, active_count is their number, and the
\* subject of id is output_prefix, '.', decimal(id).
C5_SnapshotReflectsLive ==
    LET S == heap[m_snapshot]
    IN  /\ S.live
        /\ DOMAIN S.output_subjects = LiveIds
        /\ DOMAIN S.tree = LiveIds
        /\ \A id \in LiveIds : S.tree[id] = m_subscriptions[id].expression
        /\ S.active_count = Cardinality(LiveIds)
        /\ \A id \in DOMAIN S.output_subjects : SubjectNames(S.output_subjects[id], id)

\* the snapshot holds the second subscription after the first was removed
C5_Witness ==
    /\ DOMAIN heap[m_snapshot].output_subjects = {2}
    /\ removed_ids = {1}

\* the snapshot objects some reader (a worker or a publish coroutine) holds
ReaderRefs == Refs(NullPtr, workers, tasks)

\* C6: a snapshot a reader holds keeps its tree, output_subjects and
\* active_count for as long as the reader holds it, whatever the writers do;
\* a writer that changes the slot stores an object that did not exist
\* before, and an object that stays alive is never changed.
C6_SnapshotImmutable ==
    [][/\ \A a \in ReaderRefs \cap ReaderRefs' :
             heap[a].live /\ heap'[a] = heap[a]
       /\ \A a \in Addrs : heap[a].live /\ heap'[a].live => heap'[a] = heap[a]
       /\ m_snapshot' # m_snapshot => ~heap[m_snapshot'].live]_vars

\* a reader holds a snapshot that is no longer the published one and that
\* differs from it
C6_Witness ==
    \E a \in ReaderRefs :
        /\ a # m_snapshot
        /\ heap[a].live
        /\ heap[a].active_count = 1
        /\ heap[m_snapshot].active_count # 1

\* C7: a message whose data handler ran after the subscription with id i
\* had been deleted is never published on the subject of i.
C7_NoPublishAfterRemoval ==
    \A t \in DOMAIN wire : \A j \in 1..Len(wire[t].sent) : \A i \in inbound[t].gone :
        ~SubjectNames(wire[t].sent[j].subject, i)

\* a message that arrived after a removal matched another subscription and
\* was published
C7_Witness ==
    \E t \in DOMAIN wire :
        /\ inbound[t].gone # {}
        /\ wire[t].sent # <<>>

\* the subjects a match list stands for in the snapshot it was matched on
ExpectedSubjects(t) == { wire[t].subjects[wire[t].ids[k]] : k \in 1..Len(wire[t].ids) }

\* C8: for a message matched against snapshot S with a non-empty match
\* list, every publish carries the inbound bytes on the subject S gives for
\* a matched id, no matched id is published twice, and when the publish
\* coroutine has ended each matched id has been published once.
C8_OnePublishPerMatch ==
    \A t \in DOMAIN wire :
        LET ids  == wire[t].ids
            sent == wire[t].sent
        IN  /\ ids # <<>>
            /\ \A k, l \in 1..Len(ids) : k # l => ids[k] # ids[l]
            /\ \A k \in 1..Len(ids) : ids[k] \in DOMAIN wire[t].subjects
            /\ \A j \in 1..Len(sent) :
                  /\ sent[j].subject \in ExpectedSubjects(t)
                  /\ sent[j].payload = inbound[t].payload
            /\ \A j, l \in 1..Len(sent) : j # l => sent[j].subject # sent[l].subject
            /\ t \notin DOMAIN tasks =>
                  { sent[j].subject : j \in 1..Len(sent) } = ExpectedSubjects(t)

\* a publish coroutine has ended after publishing to two subscriptions, one
\* of which had been removed after the match
C8_Witness ==
    \E t \in DOMAIN wire :
        /\ t \notin DOMAIN tasks
        /\ Len(wire[t].sent) = 2
        /\ removed_ids # {}

\* C9: the publishes of one message are issued one at a time and in the
\* order of the match list: each step adds at most one publish for the
\* message, and the n-th publish is on the subject of the n-th matched id.
C9_PublishInMatchOrder ==
    [][/\ \A t \in DOMAIN wire' \ DOMAIN wire : wire'[t].sent = <<>>
       /\ \A t \in DOMAIN wire :
             LET n == Len(wire[t].sent)
             IN  /\ t \in DOMAIN wire'
                 /\ wire'[t].ids = wire[t].ids
                 /\ \/ wire'[t].sent = wire[t].sent
                    \/ /\ Len(wire'[t].sent) = n + 1
                       /\ SubSeq(wire'[t].sent, 1, n) = wire[t].sent
                       /\ n + 1 <= Len(wire[t].ids)
                       /\ SubjectNames(wire'[t].sent[n + 1].subject, wire[t].ids[n + 1])]_vars

\* search listed the higher id first and both publishes went out
C9_Witness ==
    \E t \in DOMAIN wire :
        /\ Len(wire[t].ids) = 2
        /\ wire[t].ids[1] > wire[t].ids[2]
        /\ Len(wire[t].sent) = 2

\* a key of the shape <id>.<client_id>: a non-empty text up to the first
\* '.' that is entirely a decimal number in the u64 range, and a non-empty
\* client id after it
LeaseKeyShaped(key) ==
    LET dot == find(key, ".")
    IN  /\ dot > 0
        /\ dot < Len(key) - 1
        /\ \A i \in 1..dot : IsDigit(key[i])
        /\ ~ExceedsU64(SubSeq(key, 1, dot))

LeaseKeyId(key) == DecimalValue(SubSeq(key, 1, find(key, ".")), 0)

LeaseKeyClient(key) == SubSeq(key, find(key, ".") + 2, Len(key))

\* C10: on a delete or purge event whose key has the shape <id>.<client_id>
\* the lease manager calls remove_lease(id, client_id) exactly once; on a
\* put event and on an event whose key does not have that shape it leaves
\* the manager's state and the published snapshot unchanged.
C10_LeaseEvents ==
    [][\A kvop \in KvOps, key \in KvKeys :
          OnKvEntry(kvop, key) =>
              IF kvop # "put" /\ LeaseKeyShaped(key)
              THEN last'.calls = <<RemoveLeaseCall(LeaseKeyId(key), LeaseKeyClient(key))>>
              ELSE /\ m_subscriptions' = m_subscriptions
                   /\ m_expr_to_id' = m_expr_to_id
                   /\ m_next_id' = m_next_id
                   /\ m_snapshot' = m_snapshot
                   /\ heap' = heap]_vars

C12_LeaseKeyRoundTrip ==
    last.op = "make_and_parse" =>
        last.parsed = [ok |-> TRUE, subscription_id |-> last.id,
                       client_id |-> last.client_id]

\* a key whose client id contains and ends with '.' went round
C12_Witness ==
    /\ last.op = "make_and_parse"
    /\ last.key = <<"4", "2", ".", "c", ".", ".">>
    /\ last.parsed.ok

\* C13: parse_lease_key returns false for every key that does not have the
\* shape <id>.<client_id> at its first '.'.
C13_RejectsMalformed ==
    (last.op = "parse" /\ ~LeaseKeyShaped(last.key)) => ~last.parsed.ok

\* C14: m_next_id never decreases from one call to the next, and a
\* subscribe that creates a subscription increases it.
C14_NextIdMonotone ==
    [][/\ m_next_id' >= m_next_id
       /\ \A e \in Exprs, c \in Clients :
             (CallSubscribe(e, c) /\ last'.log = "New subscription") =>
                 m_next_id' > m_next_id]_vars

\* two subscriptions were created and both removed: the counter stays past
\* both ids
C14_Witness ==
    /\ m_next_id = 3
    /\ removed_ids = {1, 2}
    /\ LiveIds = {}
    /\ last.op = "remove_lease"

\* C15: remove_subscription(id) on a live id returns true, deletes the
\* subscription and its expression entry whatever its holders, and
\* publishes a new snapshot without id, leaving the other subscriptions
\* alone; on an id that is not live it returns false and changes nothing.
C15_ForceRemove ==
    [][\A id \in Ids :
          CallRemoveSubscription(id) =>
              IF id \in LiveIds
              THEN /\ last'.ret_removed
                   /\ LiveIds' = LiveIds \ {id}
                   /\ DOMAIN m_expr_to_id' =
                          DOMAIN m_expr_to_id \ {m_subscriptions[id].expression}
                   /\ \A k \in LiveIds' : m_subscriptions'[k] = m_subscriptions[k]
                   /\ m_snapshot' # m_snapshot
                   /\ DOMAIN heap'[m_snapshot'].output_subjects = LiveIds'
                   /\ DOMAIN heap'[m_snapshot'].tree = LiveIds'
                   /\ m_next_id' = m_next_id
              ELSE /\ ~last'.ret_removed
                   /\ m_subscriptions' = m_subscriptions
                   /\ m_expr_to_id' = m_expr_to_id
                   /\ m_next_id' = m_next_id
                   /\ m_snapshot' = m_snapshot
                   /\ heap' = heap]_vars

\* a subscription was force-removed while another one stays live
C15_Witness ==
    /\ last.op = "remove_subscription"
    /\ last.ret_removed
    /\ last.log = "Force-removed subscription"
    /\ Cardinality(LiveIds) = 1
    /\ heap[m_snapshot].active_count = 1

\* the data messages so far that carried bytes
NonEmptyInbound == { t \in 1..Len(inbound) : inbound[t].payload # <<>> }

\* C16: a data message with an empty payload adds one to received and
\* nothing else: the queue, the workers, the counters and the publishes stay
\* as they were.  While the pool is not being stopped the queue never holds
\* an empty element, no worker leaves its loop, and only messages that
\* carried bytes are processed or published.
C16_EmptyPayloadDropped ==
    [][/\ OnDataMessage(<<>>) =>
             /\ m_messages_received' = m_messages_received + 1
             /\ m_queue' = m_queue
             /\ workers' = workers
             /\ tasks' = tasks
             /\ wire' = wire
             /\ <<m_processed, m_matched, m_published, m_match_failures>>' =
                    <<m_processed, m_matched, m_published, m_match_failures>>
       /\ \A i \in 1..Len(m_queue') : m_queue'[i].payload # <<>>
       /\ \A w \in Workers : workers'[w].pc # "exit"
       /\ m_processed' <= Cardinality(NonEmptyInbound')
       /\ DOMAIN wire' \subseteq NonEmptyInbound']_vars

\* an empty message has been received while a subscription was live, and
\* nothing was queued or processed
C16_Witness ==
    /\ Len(inbound) = 1
    /\ inbound[1].payload = <<>>
    /\ m_messages_received = 1
    /\ m_queue = <<>>
    /\ m_processed = 0
    /\ LiveIds # {}

\* C17: when worker_pool::stop returns (the threads are joined), no payload
\* is left in the queue and every payload that was enqueued has been
\* processed.
C17_StopDrainsQueue ==
    [][JoinWorkers =>
          /\ \A i \in 1..Len(m_queue) : m_queue[i].payload = <<>>
          /\ m_processed = Cardinality({ t \in 1..Len(inbound) : inbound[t].queued })]_vars

\* publish task t is waiting on an I/O loop that has been stopped or whose
\* thread is inside stop_workers
HandedOff(t) == t \in DOMAIN tasks /\ (ioc_stopped \/ main_pc = "join")

\* C18: a publish task that is pending when the loop is stopped, or that a
\* worker hands over before it exits, runs to its end in the loop run that
\* follows stop_workers: a publish goes out for each of its matched ids.
C18_HandedOffTasksComplete ==
    \A t \in 1..MaxMsgs :
        HandedOff(t) ~> /\ main_pc = "run_again"
                        /\ t \notin DOMAIN tasks
                        /\ t \in DOMAIN wire
                        /\ Len(wire[t].sent) = Len(wire[t].ids)

\* the workers are joined, the loop runs again and a publish task is still
\* to be run
C18_Witness ==
    /\ main_pc = "run_again"
    /\ ~ioc_stopped
    /\ \A w \in Workers : workers[w].pc = "exit"
    /\ tasks # <<>>

\* C19: once the signal handler has run, with the engine started (the
\* stats loop, the bus subscriptions and the watch registered), main
\* eventually returns.
C19_ShutdownExits ==
    (~signals_waiting /\ start_pc = "done"
        /\ registered = {"input", "subscribe", "unsubscribe", "kv"})
    ~> main_pc = "returned"

\* C20: when a subscription fails during start, the watch is not
\* established, no worker thread is started, and the process ends with a
\* non-zero exit code.
C20_StartFailureFatal ==
    start_pc = "failed" =>
        /\ "kv" \notin registered
        /\ \A w \in Workers : workers[w].pc = "unstarted"
        /\ ~m_running
        /\ main_pc = "returned" => exit_code # <<0>>

----------------------------------------------------------------------------
\* C27: a subscribe whose expression is already live only adds the caller to
\* the lease holders; it publishes nothing: the slot holds the same snapshot
\* object, with the same content, before and after the call.
C27_DuplicateKeepsSnapshot ==
    [][\A e \in Exprs, c \in Clients :
          (e \in DOMAIN m_expr_to_id /\ CallSubscribe(e, c)) =>
              /\ m_snapshot' = m_snapshot
              /\ heap' = heap
              /\ Holders(m_expr_to_id[e])' = Holders(m_expr_to_id[e]) \cup {c}]_vars

\* a second client has joined one of two live expressions
C27_Witness ==
    /\ last.log = "Reused subscription"
    /\ Cardinality(LiveIds) = 2
    /\ \E id \in LiveIds : Cardinality(Holders(id)) = 2

\* C28: a remove_lease call that returns false (id not live, client not a
\* holder, or other holders remain) leaves the set of live ids, expr_to_id,
\* next_id and the published slot unchanged; for an id that is not live
\* nothing at all changes.
C28_RemoveLeaseFalseFrame ==
    [][\A id \in Ids, c \in Clients :
          (CallRemoveLease(id, c) /\ ~last'.ret_removed) =>
              /\ LiveIds' = LiveIds
              /\ m_expr_to_id' = m_expr_to_id
              /\ m_next_id' = m_next_id
              /\ m_snapshot' = m_snapshot
              /\ heap' = heap
              /\ id \notin LiveIds =>
                     /\ m_subscriptions' = m_subscriptions
                     /\ removed_ids' = removed_ids]_vars

\* a lease was given up while another client still holds the subscription
C28_Witness ==
    /\ last.op = "remove_lease"
    /\ ~last.ret_removed
    /\ last.log = "Removed lease"
    /\ \E id \in LiveIds : Cardinality(Holders(id)) = 1

\* C29: between writer operations expr_to_id and subscriptions agree: every
\* indexed expression leads to a live subscription with that expression,
\* every live subscription's expression leads back to its own id, and the
\* two maps have the same size.
C29_MapsConsistent ==
    /\ \A e \in DOMAIN m_expr_to_id :
           /\ m_expr_to_id[e] \in DOMAIN m_subscriptions
           /\ m_subscriptions[m_expr_to_id[e]].expression = e
    /\ \A id \in DOMAIN m_subscriptions :
           /\ m_subscriptions[id].expression \in DOMAIN m_expr_to_id
           /\ m_expr_to_id[m_subscriptions[id].expression] = id
           /\ m_subscriptions[id].id = id
    /\ Cardinality(DOMAIN m_expr_to_id) = Cardinality(DOMAIN m_subscriptions)

\* a subscribe has failed and been rolled back while another expression is live
C29_Witness ==
    /\ last.threw
    /\ "bad" \notin DOMAIN m_expr_to_id
    /\ \E e \in DOMAIN m_expr_to_id : Holders(m_expr_to_id[e]) = Clients

\* C30: between writer operations every live subscription has at least one
\* lease holder.
C30_HoldersNonEmpty ==
    \A id \in DOMAIN m_subscriptions : m_subscriptions[id].lease_holders # {}

\* a holder has left a subscription that stays live with the other holder
C30_Witness ==
    /\ last.op = "remove_lease"
    /\ \E id \in LiveIds : Holders(id) = {<<"d">>}
    /\ removed_ids = {}

----------------------------------------------------------------------------
\* C21: when the lease manager's KV watch fails, start goes on as it does
\* when the watch succeeds: the worker pool is created and started, the
\* stats loop is spawned and the I/O loop keeps running; afterwards data
\* messages are accepted and subscribe and unsubscribe requests are served
\* without the watch, and lease events are the one thing that is absent.
C21_LeaseWatchOptional ==
    /\ [][\A ok \in BOOLEAN :
             StartLeaseAndPool(ok) =>
                 /\ start_pc' = "done"
                 /\ PoolCreated' /\ StatsLoopSpawned'
                 /\ m_running'
                 /\ \A w \in Workers : workers'[w] = IdleWorker
                 /\ ioc_stopped' = ioc_stopped
                 /\ registered' \ {"kv"} = registered
                 /\ "kv" \in registered' <=> ok]_vars
    /\ [](start_pc = "done" /\ IoRunning /\ "kv" \notin registered =>
             /\ \A e \in Exprs, c \in Clients :
                    (e \in DOMAIN m_expr_to_id \/ m_next_id <= MaxId)
                        => ENABLED OnSubscribeRequest(e, c)
             /\ \A id \in Ids, c \in Clients :
                    /\ ENABLED OnUnsubscribeRequest(id, c)
                    /\ ~ENABLED OnLeaseEvent(id, c)
             /\ \A p \in Payloads :
                    m_messages_received < MaxMsgs => ENABLED OnDataMessage(p))

\* without a lease watch a subscription was created and a data message was
\* matched and published for it
C21_Witness ==
    /\ start_pc = "done"
    /\ "kv" \notin registered
    /\ LiveIds # {}
    /\ m_matched >= 1
    /\ m_published >= 1

----------------------------------------------------------------------------
\* C25: deserialize_and_match returns "no match" (none), which is not the
\* empty match list, for a payload that fails to decode, whose root is not a
\* map or whose search throws; for such a message the worker counts one
\* processed message and one match failure, does not count a match and
\* hands no publish task to the I/O loop. A payload that decodes and matches
\* nothing gives the empty list and is not counted as a failure.
C25_NoMatchIsFailure ==
    [][\A w \in Workers :
          WorkerMatch(w) =>
              LET payload == workers[w].payload
                  tree    == heap[workers[w].snap].tree
              IN  /\ m_processed' = m_processed + 1
                  /\ payload \in { <<"x">>, <<"n">>, <<"t">> } =>
                         /\ deserialize_and_match(tree, payload) = { <<>> }
                         /\ << <<>> >> \notin deserialize_and_match(tree, payload)
                         /\ m_match_failures' = m_match_failures + 1
                         /\ m_matched' = m_matched
                         /\ tasks' = tasks
                         /\ wire' = wire
                  /\ payload = <<"a">> =>
                         /\ <<>> \notin deserialize_and_match(tree, payload)
                         /\ m_match_failures' = m_match_failures]_vars

\* a message whose search threw was counted as a failure while a
\* subscription was live
C25_Witness ==
    /\ Len(inbound) >= 1
    /\ inbound[1].payload = <<"t">>
    /\ m_processed = 1
    /\ m_match_failures = 1
    /\ LiveIds # {}

----------------------------------------------------------------------------
\* the builder call the type table prescribes for a field of a known key:
\* the typed value when the kind is accepted for the declared type,
\* otherwise (and after an error on the field) the field marked undefined
C24_Expected(key, value) ==
    LET type == Schema[key]
        undefined == [call |-> "with_undefined", key |-> key, value |-> "", list |-> <<>>]
        typed(call, x) == [call |-> call, key |-> key, value |-> x, list |-> <<>>]
        listed(call, kinds) ==
            LET kept == SelectSeq(value.elems, LAMBDA e : e.kind \in kinds)
            IN  [call |-> call, key |-> key, value |-> "",
                 list |-> [n \in 1..Len(kept) |-> kept[n].v]]
        as_double == IF value.v = "2" THEN "2.0" ELSE "-1.0"
    IN  IF value.fault # "none" THEN undefined
        ELSE IF type = "boolean" /\ value.kind = "bool" THEN typed("with_boolean", value.v)
        ELSE IF type = "integer" /\ value.kind \in {"int", "uint"}
             THEN typed("with_integer", value.v)
        ELSE IF type = "float_val" /\ value.kind = "float" THEN typed("with_float", value.v)
        ELSE IF type = "float_val" /\ value.kind \in {"int", "uint"}
             THEN typed("with_float", as_double)
        ELSE IF type = "string" /\ value.kind = "string" THEN typed("with_string", value.v)
        ELSE IF type = "string_list" /\ value.kind = "array"
             THEN listed("with_string_list", {"string"})
        ELSE IF type = "integer_list" /\ value.kind = "array"
             THEN listed("with_integer_list", {"int", "uint"})
        ELSE undefined

\* C24: when an event is built from a map, every payload key found in the
\* schema gets exactly one builder call, the typed value when the value's kind
\* is accepted for the declared type and the field marked undefined
\* otherwise; keys the schema does not know and schema keys the payload lacks
\* get no call; an error on one field marks that field undefined and never
\* fails the whole message.
C24_OneCallPerField ==
    [][\A root \in EventRoots :
          (PopulateEvent(root) /\ root.kind = "map") =>
              /\ last'.outcome = "true"
              /\ \A n \in 1..Len(root.fields) :
                     LET key  == root.fields[n].key
                         mine == SelectSeq(last'.calls, LAMBDA c : c.key = key)
                     IN  IF key \in DOMAIN Schema
                         THEN mine = <<C24_Expected(key, root.fields[n].value)>>
                         ELSE mine = <<>>
              /\ \A j \in 1..Len(last'.calls) :
                     \E n \in 1..Len(root.fields) :
                         root.fields[n].key = last'.calls[j].key]_vars

----------------------------------------------------------------------------
\* a subscribe request is well formed: JSON with string members expression
\* and client_id
WellFormedSubscribe(body) ==
    /\ body.json
    /\ body.expression.type = "string"
    /\ body.client_id.type = "string"

\* C22: a subscribe request that carries reply_to gets exactly one reply, on
\* that subject. For a well-formed request with a valid expression the
\* reply holds the id now assigned to the expression, the topic
\* output_prefix.<id>, which is the snapshot's output subject for the id, and
\* the lease key <id>.<client_id>; otherwise the reply is an error object and
\* the subscription state is unchanged. A request without reply_to is
\* ignored: no subscribe call, no reply, no change.
C22_SubscribeReply ==
    [][\A reply_to \in ReplyTos, body \in RequestBodies :
          on_subscribe_request(reply_to, body) =>
              IF reply_to = <<>>
              THEN /\ last'.calls = <<>>
                   /\ last'.replies = <<>>
                   /\ <<mgr_vars, heap>>' = <<mgr_vars, heap>>
              ELSE /\ Len(last'.replies) = 1
                   /\ last'.replies[1].subject = reply_to[1]
                   /\ LET r == last'.replies[1].body
                      IN  IF WellFormedSubscribe(body)
                             /\ ValidExpression(body.expression.v)
                          THEN LET e == body.expression.v
                                   c == body.client_id.v
                               IN  /\ DOMAIN r = {"id", "topic", "lease_bucket",
                                                  "lease_key", "lease_ttl_seconds"}
                                   /\ r.id \in LiveIds'
                                   /\ m_expr_to_id'[e] = r.id
                                   /\ c \in m_subscriptions'[r.id].lease_holders
                                   /\ SubjectNames(r.topic, r.id)
                                   /\ r.topic = heap'[m_snapshot'].output_subjects[r.id]
                                   /\ r.lease_key = to_string(r.id) \o <<".">> \o c
                          ELSE /\ DOMAIN r = {"error"}
                               /\ <<mgr_vars, heap>>' = <<mgr_vars, heap>>]_vars

\* a request for a second expression has been answered with id 2 while
\* subscription 1 is live
C22_Witness ==
    /\ last.op = "on_subscribe_request"
    /\ Len(last.replies) = 1
    /\ DOMAIN last.replies[1].body # {"error"}
    /\ last.replies[1].body.id = 2
    /\ LiveIds = {1, 2}

\* an unsubscribe request is well formed: JSON with a number id and a
\* string client_id
WellFormedUnsubscribe(body) ==
    /\ body.json
    /\ body.id.type = "number"
    /\ body.client_id.type = "string"

\* C23: for a well-formed unsubscribe request {id, client_id} the handler
\* calls remove_lease(id, client_id) exactly once, with or without reply_to;
\* when a reply subject is given it gets one reply whose removed member is
\* true exactly when the call deleted the subscription. A malformed request
\* makes no call and changes no subscription state.
C23_UnsubscribeReply ==
    [][\A reply_to \in ReplyTos, body \in RequestBodies :
          on_unsubscribe_request(reply_to, body) =>
              IF WellFormedUnsubscribe(body)
              THEN LET id == body.id.v
                       c  == body.client_id.v
                       deleted == id \in LiveIds /\ id \notin LiveIds'
                   IN  /\ last'.calls = <<[fn |-> "remove_lease", subscription_id |-> id,
                                            client_id |-> c]>>
                       /\ id \in LiveIds' => c \notin Holders(id)'
                       /\ IF reply_to \in { <<>>, <<"">> }
                          THEN last'.replies = <<>>
                          ELSE last'.replies =
                                   <<[subject |-> reply_to[1],
                                      body |-> [id |-> id, removed |-> deleted]]>>
              ELSE /\ last'.calls = <<>>
                   /\ <<mgr_vars, heap, removed_ids>>' = <<mgr_vars, heap, removed_ids>>]_vars

\* a request with a reply subject removed the last holder and was answered
\* with removed = true
C23_Witness ==
    /\ last.op = "on_unsubscribe_request"
    /\ Len(last.replies) = 1
    /\ last.replies[1].body = [id |-> 1, removed |-> TRUE]
    /\ removed_ids = {1}

----------------------------------------------------------------------------
\* the snapshot at address a is one publication's: a tree and an
\* output_subjects map over the same ids, and their number as active_count
OnePublication(a) ==
    /\ heap[a].live
    /\ DOMAIN heap[a].tree = DOMAIN heap[a].output_subjects
    /\ heap[a].active_count = Cardinality(DOMAIN heap[a].tree)

\* how many snapshots the writers have published since construction: one
\* for each subscription created and one for each deleted
Publications == (m_next_id - 1) + Cardinality(removed_ids)

----------------------------------------------------------------------------
\* C31: in every snapshot that is alive the ids inserted into the tree are
\* the keys of output_subjects, so every id a search handed to a publish
\* task has a subject in the task's own snapshot: the task's lookup never
\* misses, the position it publishes next is the position it stands at.
C31_TreeIdsHaveSubjects ==
    /\ \A a \in Addrs :
           heap[a].live => DOMAIN heap[a].tree = DOMAIN heap[a].output_subjects
    /\ \A t \in DOMAIN tasks :
           /\ \A i \in 1..Len(tasks[t].matched_ids) :
                  /\ tasks[t].matched_ids[i] \in DOMAIN heap[tasks[t].snap_copy].tree
                  /\ tasks[t].matched_ids[i] \in DOMAIN TaskSubjects(t)
           /\ TaskPosition(t) = tasks[t].next

\* a task has published for its first id and stands at its second, looking
\* it up in a snapshot that is no longer the current one
C31_Witness ==
    \E t \in DOMAIN tasks :
        /\ tasks[t].next = 2
        /\ Len(tasks[t].matched_ids) = 2
        /\ tasks[t].snap_copy # m_snapshot
        /\ Len(wire[t].sent) = 1

----------------------------------------------------------------------------
\* C32: matched + match_failures <= processed <= received in every state.
\* A message is counted in received before it is in the queue; a worker
\* that finishes a payload counts it in processed once and in at most one
\* of match_failures and matched; a dequeued sentinel and every other step
\* leave the three worker counters alone.
C32_CounterOrder ==
    /\ [](/\ m_matched + m_match_failures <= m_processed
          /\ m_processed <= m_messages_received
          /\ \A i \in 1..Len(m_queue) : m_queue[i].seq <= m_messages_received
          /\ \A w \in Workers : workers[w].seq <= m_messages_received)
    /\ [][IF \E w \in Workers : workers[w].pc = "match" /\ workers'[w].pc = "wait"
          THEN /\ m_processed' = m_processed + 1
               /\ <<m_matched', m_match_failures'>> \in
                      { <<m_matched, m_match_failures>>,
                        <<m_matched + 1, m_match_failures>>,
                        <<m_matched, m_match_failures + 1>> }
          ELSE UNCHANGED <<m_processed, m_matched, m_match_failures>>]_vars

\* after shutdown: one message was received, processed with an empty match
\* list and counted in neither matched nor match_failures; the workers have
\* taken their sentinels
C32_Witness ==
    /\ m_messages_received = 1
    /\ m_processed = 1
    /\ m_matched = 0
    /\ m_match_failures = 0
    /\ \A w \in Workers : workers[w].pc = "exit"

----------------------------------------------------------------------------
\* the number of ids in the match lists handed to publish tasks so far
RECURSIVE MatchedIdsTotal(_)
MatchedIdsTotal(ts) ==
    IF ts = {} THEN 0
    ELSE LET t == CHOOSE x \in ts : TRUE
         IN  Len(wire[t].ids) + MatchedIdsTotal(ts \ {t})

\* C33: published goes up by one with a successful publish and stays with a
\* failed one; a failed publish is not tried again, and the task goes on
\* with the ids that remain (each id of the list is tried once, in order);
\* nothing else changes published, which therefore never exceeds the number
\* of matched ids of all matched messages.
C33_PublishedCountsSuccesses ==
    /\ [](/\ m_published <= MatchedIdsTotal(DOMAIN wire)
          /\ \A t \in DOMAIN wire :
                 /\ Len(wire[t].sent) <= Len(wire[t].ids)
                 /\ \A i \in 1..Len(wire[t].sent) :
                        wire[t].sent[i].subject = wire[t].subjects[wire[t].ids[i]])
    /\ [][/\ \A t \in DOMAIN tasks :
               /\ TaskStep(t, FALSE) =>
                      /\ m_published' = m_published
                      /\ Len(wire'[t].sent) = Len(wire[t].sent) + 1
                      /\ IF Len(wire'[t].sent) < Len(wire[t].ids)
                         THEN t \in DOMAIN tasks' /\ tasks'[t].next = tasks[t].next + 1
                         ELSE t \notin DOMAIN tasks'
               /\ TaskStep(t, TRUE) =>
                      /\ m_published' = m_published + 1
                      /\ Len(wire'[t].sent) = Len(wire[t].sent) + 1
          /\ m_published' # m_published =>
                 \E t \in DOMAIN tasks : wire'[t].sent # wire[t].sent]_vars

\* a task has ended after two publishes of which one failed
C33_Witness ==
    \E t \in DOMAIN wire :
        /\ t \notin DOMAIN tasks
        /\ Len(wire[t].sent) = 2
        /\ m_published = 1

----------------------------------------------------------------------------
\* C37: an id is assigned once. A subscribe that creates a subscription
\* returns an id that no subscription, live or removed, has had, greater
\* than all of them, and 1 if it is the first; aborted subscribes in
\* between do not change that. A remove_lease or a lease event that names a
\* removed id changes nothing, so it cannot take a lease from another
\* subscription.
C37_IdsNeverReassigned ==
    [][/\ \A e \in Exprs, c \in Clients :
              (CallSubscribe(e, c) /\ last'.log = "New subscription") =>
                  /\ last'.ret_id \notin LiveIds \cup removed_ids
                  /\ \A old \in LiveIds \cup removed_ids : last'.ret_id > old
                  /\ (LiveIds \cup removed_ids = {}) => last'.ret_id = 1
                  /\ LiveIds' = LiveIds \cup {last'.ret_id}
                  /\ m_subscriptions'[last'.ret_id].lease_holders = {c}
       /\ \A id \in removed_ids, c \in Clients :
              CallRemoveLease(id, c) =>
                  /\ ~last'.ret_removed
                  /\ UNCHANGED <<mgr_vars, heap, removed_ids>>
       /\ \A kvop \in KvOps \ {"put"}, key \in KvKeys :
              (/\ parse_lease_key(key).ok
               /\ parse_lease_key(key).subscription_id \in removed_ids
               /\ OnKvEntry(kvop, key)) =>
                  /\ ~last'.ret_removed
                  /\ UNCHANGED <<mgr_vars, heap, removed_ids>>]_vars

\* subscription 1 was removed, subscription 2 is live, and a late lease
\* event for 1 has just been handled, leaving 2 its holder
C37_Witness ==
    /\ removed_ids = {1}
    /\ LiveIds = {2}
    /\ last.op = "kv_entry"
    /\ last.calls = <<RemoveLeaseCall(1, <<"c">>)>>
    /\ Holders(2) = {<<"c">>}

----------------------------------------------------------------------------
\* C34: once stop() has cleared the flag and enqueued the pills, every
\* worker thread exits and stop() returns, whatever the queue holds and
\* however the threads interleave. A worker leaves its loop only when the
\* flag is down: at the head of the loop, or by dequeuing a pill.
C34_StopTerminates ==
    /\ (main_pc = "join") ~>
           (main_pc = "run_again" /\ \A w \in Workers : workers[w].pc = "exit")
    /\ [][\A w \in Workers :
              (workers[w].pc # "exit" /\ workers'[w].pc = "exit") =>
                  /\ ~m_running
                  /\ \/ WorkerExit(w)
                     \/ /\ WorkerDequeue(w)
                        /\ Head(m_queue) \in {PoisonPills[i] : i \in 1..Len(PoisonPills)}]_vars

\* stop() has returned with a payload still in the queue, behind it the
\* pills no worker took
C34_Witness ==
    /\ main_pc = "run_again"
    /\ \A w \in Workers : workers[w].pc = "exit"
    /\ m_queue # <<>>
    /\ Head(m_queue).payload # <<>>
    /\ Len(m_queue) = 1 + Len(PoisonPills)

----------------------------------------------------------------------------
\* stop() has returned: the pool exists, its flag is down, its threads are
\* joined and main has gone on
StopReturned ==
    /\ PoolCreated
    /\ ~m_running
    /\ main_pc \in {"run_again", "returned"}
    /\ \A w \in Workers : workers[w].pc = "exit"

\* C35: after stop() has joined the workers nothing more is enqueued on the
\* pool's queue, also not while the I/O loop runs again.
C35_NoEnqueueAfterStop ==
    [][StopReturned => m_queue' = m_queue]_vars

----------------------------------------------------------------------------
\* C36: whenever the data handler enqueues a payload the worker pool has
\* been created: every non-empty message the handler is given finds
\* m_worker_pool set, be it before start has come to the pool or after a
\* control subscription has failed.
C36_EnqueueOnCreatedPool ==
    [][\A p \in Payloads :
           (OnDataMessage(p) /\ ~DropsPayload(p)) => PoolCreated]_vars

----------------------------------------------------------------------------
\* C38: the lease_key of every successful subscribe reply parses back, with
\* parse_lease_key, to the id of the reply and the client_id of the request,
\* which is a holder of that subscription, for every client_id the handler
\* accepts, the empty string included.
C38_LeaseKeyParsesBack ==
    [][\A reply_to \in ReplyTos, body \in RequestBodies :
           (/\ on_subscribe_request(reply_to, body)
            /\ Len(last'.replies) = 1
            /\ "lease_key" \in DOMAIN last'.replies[1].body) =>
               LET r == last'.replies[1].body
                   c == last'.calls[1].client_id
               IN  /\ c \in m_subscriptions'[r.id].lease_holders
                   /\ parse_lease_key(r.lease_key) =
                          [ok |-> TRUE, subscription_id |-> r.id, client_id |-> c]]_vars

----------------------------------------------------------------------------
\* C39: a delete event for the key of client c on subscription id that
\* stems from c's earlier lease and is handled after c has subscribed to id
\* again leaves c a holder of id, and id live. The case stated: c, the only
\* holder of id, has just subscribed to its expression once more, and the
\* next thing the I/O thread handles is the delete of <id>.<c>.
C39_StaleDeleteKeepsHolder ==
    [][\A id \in Ids, c \in Clients :
           (/\ last.op = "subscribe"
            /\ last.log = "Reused subscription"
            /\ last.ret_id = id
            /\ id \in LiveIds
            /\ Holders(id) = {c}
            /\ OnKvEntry("del", make_lease_key(id, c))) =>
               /\ id \in LiveIds'
               /\ c \in m_subscriptions'[id].lease_holders]_vars

----------------------------------------------------------------------------
\* the places message t is at: queue positions and workers
PlacesOf(t) ==
    Cardinality({ i \in 1..Len(m_queue) : m_queue[i].seq = t })
        + Cardinality({ w \in Workers : workers[w].seq = t })

\* the messages the data handler has enqueued
Enqueued == { t \in 1..Len(inbound) : inbound[t].queued }

\* C40: while the pool is running no worker has left its loop, and a worker
\* leaves it only after stop() was called. An enqueued payload is in one
\* place at most, the queue or one worker, and the payloads that are in no
\* place any more are the ones counted in processed: each was dequeued by
\* one worker and processed once. A payload enqueued on the running pool is
\* processed eventually, unless stop() is called first.
C40_RunningPoolProcessesAll ==
    /\ [](/\ m_running => \A w \in Workers : workers[w].pc # "exit"
          /\ \A t \in 1..Len(inbound) :
                 PlacesOf(t) <= (IF t \in Enqueued THEN 1 ELSE 0)
          /\ m_processed = Cardinality({ t \in Enqueued : PlacesOf(t) = 0 }))
    /\ [][\A w \in Workers :
              (workers[w].pc # "exit" /\ workers'[w].pc = "exit") =>
                  ~m_running /\ main_pc = "join"]_vars
    /\ \A t \in 1..MaxMsgs :
           (m_running /\ t \in Enqueued) ~> (~m_running \/ PlacesOf(t) = 0)

\* the loop was stopped by the signal with a payload in the queue; stop()
\* has not been called yet and a worker has processed the payload
C40_Witness ==
    /\ m_running
    /\ main_pc = "run"
    /\ ioc_stopped
    /\ Enqueued = {1}
    /\ m_processed = 1
    /\ \A w \in Workers : workers[w].pc = "wait"

====
